---------------------------- MODULE Spec2Model ----------------------------
(***************************************************************************)
(* A state-machine model of the webminer wallet core (src/wallet.cc):      *)
(* the sqlite3 connection with its transaction state, the recovery log,   *)
(* the Wallet constructor / destructor, AddSecretToWallet,                 *)
(* AddOutputToWallet, ReserveSecret, ReplaceWebcash and Insert, together   *)
(* with the replace server behind the HTTP transport.                      *)
(***************************************************************************)
EXTENDS Integers, Sequences, FiniteSets, TLC

(***************************************************************************)
(* Bounds of the model.                                                    *)
(***************************************************************************)
\* Number of public wallet operations (Insert) one behaviour starts.
MaxOps == 2
\* Number of process crashes one behaviour contains.
MaxCrashes == 1
\* Number of sqlite3 statements the environment makes fail.
MaxFaults == 1
\* Largest reading of the wall clock.
MaxTime == 1
\* Width, in bits, of the scaled-down two's complement Amount (int64_t in
\* the program).
AmountBits == 3
\* Longest input list, and longest output list, handed to ReplaceWebcash
\* by a direct caller.
MaxIn == 2
MaxOut == 3
\* Direct calls of ReserveSecret, AddSecretToWallet, AddOutputToWallet and
\* AcceptTerms in one run.
MaxCalls == 3

(***************************************************************************)
(* Value types.                                                            *)
(***************************************************************************)
\* The values GetStrongRandBytes can return for the 32-byte master secret.
RootVals == {1, 2}

\* Secrets handed to Insert from outside the wallet.
ExtSecrets == {<<1>>, <<2>>}

\* The readings of the wall clock (absl::Now(), in seconds).
Times == 0..MaxTime

\* Amount: a signed integer of AmountBits bits.
AmountMod == 2 ^ AmountBits
MaxAmount == 2 ^ (AmountBits - 1) - 1
MinAmount == 0 - 2 ^ (AmountBits - 1)

\* The amounts callers use: an invalid one, the smallest valid one, and
\* the largest representable one.
Amounts == {0, 1, MaxAmount}

\* Two's complement wrap of an integer into the Amount range.
WrapAmount(x) ==
    LET m == x % AmountMod
    IN  IF m > MaxAmount THEN m - AmountMod ELSE m

\* Amount::operator+= : plain (non-saturating) signed addition.
AmountAdd(a, b) == WrapAmount(a + b)

\* SHA256 of a secret (PublicWebcash's constructor): injective.
SHA256(sk) == [preimage |-> sk]

\* absl::BytesToHexString of the master secret.
BytesToHexString(bytes) == [hex |-> bytes]

\* to_string(SecretWebcash(sk, amount)): "e<amount>:secret:<hex>".
SecretWebcashStr(sk, amount) == [e |-> amount, secret |-> sk]

\* SQL NULL and SQL integers, as bound to an INTEGER column.
SqlNull == <<>>
SqlInteger(i) == <<i>>

(***************************************************************************)
(* The category of a (mine, sweep) pair.                                   *)
(***************************************************************************)
\* get_hash_type (lines 425-440): the enumerator of a (mine, sweep) pair.
get_hash_type(mine, sweep) ==
    IF ~mine /\ ~sweep THEN "PAYMENT"
    ELSE IF ~mine /\ sweep THEN "RECEIVE"
    ELSE IF mine /\ ~sweep THEN "CHANGE"
    ELSE IF mine /\ sweep THEN "MINING"
    ELSE "UNUSED"

\* to_string(HashType) (lines 405-423): the event name of the recovery log.
to_string(type) ==
    IF type = "UNUSED" THEN "unused"
    ELSE IF type = "PAYMENT" THEN "pay"
    ELSE IF type = "RECEIVE" THEN "recieve"
    ELSE IF type = "CHANGE" THEN "change"
    ELSE IF type = "MINING" THEN "mining"
    ELSE "unknown"

\* The integer value of an enumerator of HashType that names a chain: the
\* category number of the encoding table.
HashTypeValue(type) ==
    CASE type = "RECEIVE" -> 0
      [] type = "PAYMENT" -> 1
      [] type = "CHANGE" -> 2
      [] type = "MINING" -> 3

\* get_hash_type followed by to_string(HashType).
HashTypeName(mine, sweep) == to_string(get_hash_type(mine, sweep))

\* ChaincodeBits with the bits of the two sweep values exchanged.
ChaincodeBitsSwapped(mine, sweep) ==
    IF ~mine /\ ~sweep THEN 0
    ELSE IF ~mine /\ sweep THEN 1
    ELSE IF mine /\ sweep THEN 2
    ELSE 3

\* The category bits OR-ed into the last chaincode byte (lines 534-545).
ChaincodeBits(mine, sweep) ==
    IF ~mine /\ sweep THEN 0
    ELSE IF ~mine /\ ~sweep THEN 1
    ELSE IF mine /\ ~sweep THEN 2
    ELSE 3

\* DeriveSecret without depth_bytes in the preimage.
DeriveSecretNoDepth(hdroot, mine, sweep, depth) ==
    <<hdroot, ChaincodeBits(mine, sweep), 0>>

\* The derived secret: SHA256(tag || tag || hdroot || chaincode_bytes ||
\* depth_bytes), an injective function of its preimage.
DeriveSecret(hdroot, mine, sweep, depth) ==
    <<hdroot, ChaincodeBits(mine, sweep), depth>>

(***************************************************************************)
(* The database: six tables, each a sequence of rows; the row id of a row  *)
(* is its position (INTEGER PRIMARY KEY, no row is ever deleted).          *)
(***************************************************************************)
EmptyDb ==
    [terms |-> <<>>, secret |-> <<>>, output |-> <<>>,
     hdroot |-> <<>>, hdchain |-> <<>>, hdkey |-> <<>>]

\* (SELECT id FROM 'secret' WHERE secret = :secret): the set of matching ids.
SecretIds(db, sk) == {i \in 1..Len(db.secret) : db.secret[i].secret = sk}

\* (SELECT id FROM 'hdroot' WHERE secret = :secret)
HdrootIds(db, root) == {i \in 1..Len(db.hdroot) : db.hdroot[i].secret = root}

MinOf(S) == CHOOSE x \in S : \A y \in S : x <= y

\* InitialChains without the (mine, sweep) = (TRUE, TRUE) row.
InitialChainsNoMining == <<[mine |-> FALSE, sweep |-> FALSE],
                           [mine |-> FALSE, sweep |-> TRUE],
                           [mine |-> TRUE, sweep |-> FALSE]>>

\* The four chains inserted with a new root, in the order of the VALUES list.
InitialChains == <<[mine |-> FALSE, sweep |-> FALSE],
                   [mine |-> FALSE, sweep |-> TRUE],
                   [mine |-> TRUE, sweep |-> FALSE],
                   [mine |-> TRUE, sweep |-> TRUE]>>

RECURSIVE InsertChains(_, _, _)
\* INSERT OR IGNORE of the rows k..4 of the hdchain VALUES list.
InsertChains(tbl, rootid, k) ==
    IF k > Len(InitialChains) THEN tbl
    ELSE LET c == InitialChains[k]
             dup == \E i \in 1..Len(tbl) :
                       /\ tbl[i].hdroot_id = rootid
                       /\ tbl[i].chaincode = 0
                       /\ tbl[i].mine = c.mine
                       /\ tbl[i].sweep = c.sweep
             row == [hdroot_id |-> rootid, chaincode |-> 0, mine |-> c.mine,
                     sweep |-> c.sweep, mindepth |-> 0, maxdepth |-> 0]
         IN  InsertChains(IF dup THEN tbl ELSE Append(tbl, row), rootid, k + 1)

\* An UPDATE that flips the spent flag of the row.
\* No UNIQUE constraint on the body of a terms row.
BodyTakenNever(db, body) == FALSE

\* 'body' TEXT UNIQUE (line 169): a row of terms already holds the body,
\* so INSERT OR IGNORE (line 927) adds nothing.
BodyTaken(db, body) == \E i \in 1..Len(db.terms) : db.terms[i].body = body

SetSpentFlip(row) == [row EXCEPT !.spent = ~@]

\* SET spent=TRUE (line 768) on one output row.
SetSpent(row) == [row EXCEPT !.spent = TRUE]

\* The effect of one data statement on the tables and on
\* sqlite3_last_insert_rowid: [db, rowid].
ApplyStmt(db, rowid, st) ==
    CASE st.op = "insert_secret" ->
           \* INSERT OR IGNORE INTO secret: 'secret' is UNIQUE.
           IF SecretIds(db, st.secret) # {}
           THEN [db |-> db, rowid |-> rowid]
           ELSE [db |-> [db EXCEPT !.secret = Append(@,
                            [timestamp |-> st.timestamp, secret |-> st.secret,
                             mine |-> st.mine, sweep |-> st.sweep])],
                 rowid |-> Len(db.secret) + 1]
      [] st.op = "update_mine" ->
           \* UPDATE secret SET mine = mine & :mine WHERE secret = :secret
           [db |-> [db EXCEPT !.secret = [i \in 1..Len(@) |->
                       IF @[i].secret = st.secret
                       THEN [@[i] EXCEPT !.mine = @ /\ st.mine] ELSE @[i]]],
            rowid |-> rowid]
      [] st.op = "update_sweep" ->
           \* UPDATE secret SET sweep = sweep | :sweep WHERE secret = :secret
           [db |-> [db EXCEPT !.secret = [i \in 1..Len(@) |->
                       IF @[i].secret = st.secret
                       THEN [@[i] EXCEPT !.sweep = @ \/ st.sweep] ELSE @[i]]],
            rowid |-> rowid]
      [] st.op = "insert_hdkey" ->
           \* INSERT OR IGNORE INTO hdkey: secret_id is NOT NULL and UNIQUE,
           \* (hdchain_id, depth) is UNIQUE.
           LET ids == SecretIds(db, st.secret)
               sid == IF ids = {} THEN 0 ELSE MinOf(ids)
               dup == \E i \in 1..Len(db.hdkey) :
                         \/ db.hdkey[i].secret_id = sid
                         \/ /\ db.hdkey[i].hdchain_id = st.hdchain_id
                            /\ db.hdkey[i].depth = st.depth
           IN  IF ids = {} \/ dup
               THEN [db |-> db, rowid |-> rowid]
               ELSE [db |-> [db EXCEPT !.hdkey = Append(@,
                                [hdchain_id |-> st.hdchain_id,
                                 depth |-> st.depth, secret_id |-> sid])],
                     rowid |-> Len(db.hdkey) + 1]
      [] st.op = "update_maxdepth" ->
           \* UPDATE 'hdchain' SET maxdepth = maxdepth + 1 WHERE id = :hdchain_id
           [db |-> [db EXCEPT !.hdchain = [i \in 1..Len(@) |->
                       IF i = st.hdchain_id
                       THEN [@[i] EXCEPT !.maxdepth = @ + 1] ELSE @[i]]],
            rowid |-> rowid]
      [] st.op = "insert_output" ->
           \* INSERT INTO output: no uniqueness constraint.
           [db |-> [db EXCEPT !.output = Append(@,
                       [timestamp |-> st.timestamp, hash |-> st.hash,
                        secret_id |-> st.secret_id, amount |-> st.amount,
                        spent |-> st.spent])],
            rowid |-> Len(db.output) + 1]
      [] st.op = "update_spent" ->
           \* UPDATE 'output' SET spent=TRUE WHERE id=:output_id
           [db |-> [db EXCEPT !.output = [i \in 1..Len(@) |->
                       IF i = st.output_id THEN SetSpent(@[i]) ELSE @[i]]],
            rowid |-> rowid]
      [] st.op = "insert_hdroot" ->
           \* INSERT OR IGNORE INTO hdroot: ('version','secret') is UNIQUE.
           IF \E i \in 1..Len(db.hdroot) :
                 db.hdroot[i].version = 1 /\ db.hdroot[i].secret = st.secret
           THEN [db |-> db, rowid |-> rowid]
           ELSE [db |-> [db EXCEPT !.hdroot = Append(@,
                            [timestamp |-> st.timestamp, version |-> 1,
                             secret |-> st.secret])],
                 rowid |-> Len(db.hdroot) + 1]
      [] st.op = "insert_hdchains" ->
           \* INSERT OR IGNORE INTO hdchain, four rows; hdroot_id is NOT NULL.
           LET ids == HdrootIds(db, st.secret)
               tbl == IF ids = {} THEN db.hdchain
                      ELSE InsertChains(db.hdchain, MinOf(ids), 1)
           IN  [db |-> [db EXCEPT !.hdchain = tbl],
                rowid |-> IF Len(tbl) > Len(db.hdchain) THEN Len(tbl) ELSE rowid]
      [] st.op = "insert_terms" ->
           \* INSERT OR IGNORE INTO terms: 'body' is UNIQUE.
           IF BodyTaken(db, st.body)
           THEN [db |-> db, rowid |-> rowid]
           ELSE [db |-> [db EXCEPT !.terms = Append(@,
                            [body |-> st.body, timestamp |-> st.timestamp])],
                 rowid |-> Len(db.terms) + 1]

\* The state s of the database as one connection sees it: the committed
\* tables (disk), the connection's view (conn), whether the connection is
\* inside a transaction (inTx), sqlite3_last_insert_rowid (rowid), and
\* whether every statement so far succeeded (ok).
\* StepStmt is sqlite3_step of one statement st; fail: the environment
\* makes it fail.
StepStmt(s, st, fail) ==
    IF fail THEN [s EXCEPT !.ok = FALSE]
    ELSE IF st.op = "begin"
    THEN \* BEGIN inside a transaction is an error.
         IF s.inTx THEN [s EXCEPT !.ok = FALSE] ELSE [s EXCEPT !.inTx = TRUE]
    ELSE IF st.op = "commit"
    THEN \* COMMIT without a transaction is an error.
         IF s.inTx THEN [s EXCEPT !.disk = s.conn, !.inTx = FALSE]
         ELSE [s EXCEPT !.ok = FALSE]
    ELSE LET r == ApplyStmt(s.conn, s.rowid, st)
         IN  [s EXCEPT !.conn = r.db, !.rowid = r.rowid,
                       !.disk = IF s.inTx THEN @ ELSE r.db]

RECURSIVE RunStmts(_, _, _, _)
\* The loop of ExecuteSql over the statements k..Len(stmts): it stops at
\* the first statement that fails. failAt is the index of the statement
\* the environment fails (0: none).
RunStmts(s, stmts, k, failAt) ==
    IF k > Len(stmts) THEN s
    ELSE LET t == StepStmt(s, stmts[k], k = failAt)
         IN  IF t.ok THEN RunStmts(t, stmts, k + 1, failAt) ELSE t

(***************************************************************************)
(* State.                                                                  *)
(***************************************************************************)
VARIABLES
    disk,        \* the committed tables of P.db
    conn,        \* the tables as the open connection m_db sees them
    inTx,        \* the connection is inside a transaction
    rowid,       \* sqlite3_last_insert_rowid(m_db)
    bak,         \* the recovery log P.bak: a sequence of lines
    pc,          \* position of the wallet process
    f,           \* locals of the call in progress
    m_hdroot,    \* Wallet::m_hdroot (0: not loaded)
    m_hdroot_id, \* Wallet::m_hdroot_id
    http,        \* the replace request in flight and its outcome
    srvSpent,    \* the secrets the server has consumed
    clock,       \* the wall clock
    faults,      \* sqlite3 statements failed so far
    crashes,     \* process crashes so far
    ops,         \* public operations started so far
    m_db_lock,   \* the process holding the file lock on P.db (0: none)
    peer,        \* position of a second process using the same path
    m_mut,       \* the thread holding Wallet::m_mut (0: none)
    t2           \* a second thread of the wallet process: its call

vars == <<disk, conn, inTx, rowid, bak, pc, f, m_hdroot, m_hdroot_id, http,
          srvSpent, clock, faults, crashes, ops, m_db_lock, peer, m_mut, t2>>

dbvars == <<disk, conn, inTx, rowid>>

\* The connection state handed to RunStmts.
ConnState == [disk |-> disk, conn |-> conn, inTx |-> inTx, rowid |-> rowid,
              ok |-> TRUE]

\* The locals of a call, all fields present whatever the call; known is
\* what the direct caller holds: the <<sk, id>> pairs AddSecretToWallet
\* returned to it.
NoFrame ==
    [fn |-> "none", sk |-> <<>>, amount |-> 0, mine |-> FALSE, now |-> 0,
     logok |-> TRUE, secret_id |-> 0, output_id |-> 0,
     inputs |-> <<>>, outputs |-> <<>>, pre |-> EmptyDb, k |-> 0,
     sent |-> FALSE, ret |-> <<>>, failed |-> FALSE, result |-> FALSE,
     threw |-> FALSE, sweep |-> FALSE, hdchain_id |-> 0, depth |-> 0,
     known |-> {}, body |-> 0]

\* The second thread outside every call.
NoThread == [pc |-> "idle", fn |-> "none", body |-> 0, have |-> FALSE,
             threw |-> FALSE, sk |-> <<>>, now |-> 0, output_id |-> 0,
             depth |-> 0, change |-> <<>>]

NoHttp == [state |-> "idle", status |-> 0, webcashes |-> <<>>,
           new_webcashes |-> <<>>, accepted |-> FALSE]

\* The indices at which the environment may fail a statement of an
\* ExecuteSql call of n statements (0: none fails).
FailChoices(n) == IF faults < MaxFaults THEN 0..n ELSE {0}

(***************************************************************************)
(* ExecuteSql (src/wallet.cc:121-162) applied to the connection.           *)
(***************************************************************************)
ExecuteSql(stmts, failAt) == RunStmts(ConnState, stmts, 1, failAt)

\* The connection after an ExecuteSql call that ended in state s.
SetDb(s, failAt) ==
    /\ disk' = s.disk
    /\ conn' = s.conn
    /\ inTx' = s.inTx
    /\ rowid' = s.rowid
    /\ faults' = IF failAt = 0 THEN faults ELSE faults + 1

(***************************************************************************)
(* The SQL texts of the multi-statement ExecuteSql calls.                  *)
(***************************************************************************)
\* GetOrCreateHDRoot, lines 257-269.
RootSql(timestamp, root) ==
    <<[op |-> "begin"],
      [op |-> "insert_hdroot", timestamp |-> timestamp, secret |-> root],
      [op |-> "insert_hdchains", secret |-> root],
      [op |-> "commit"]>>

\* AddSecretSql without the two UPDATE statements.
AddSecretSqlNoMerge(timestamp, sk, mine, sweep) ==
    <<[op |-> "begin"],
      [op |-> "insert_secret", timestamp |-> timestamp, secret |-> sk,
       mine |-> mine, sweep |-> sweep],
      [op |-> "commit"]>>

\* AddSecretToWallet, lines 631-640.
AddSecretSql(timestamp, sk, mine, sweep) ==
    <<[op |-> "begin"],
      [op |-> "insert_secret", timestamp |-> timestamp, secret |-> sk,
       mine |-> mine, sweep |-> sweep],
      [op |-> "update_mine", secret |-> sk, mine |-> mine],
      [op |-> "update_sweep", secret |-> sk, sweep |-> sweep],
      [op |-> "commit"]>>

\* ReserveSql without the UPDATE of maxdepth.
ReserveSqlNoAdvance(timestamp, sk, mine, sweep, hdchain_id, depth) ==
    <<[op |-> "begin"],
      [op |-> "insert_secret", timestamp |-> timestamp, secret |-> sk,
       mine |-> mine, sweep |-> sweep],
      [op |-> "update_mine", secret |-> sk, mine |-> mine],
      [op |-> "update_sweep", secret |-> sk, sweep |-> sweep],
      [op |-> "insert_hdkey", hdchain_id |-> hdchain_id, depth |-> depth,
       secret |-> sk],
      [op |-> "commit"]>>

\* ReserveSql without BEGIN TRANSACTION and COMMIT.
ReserveSqlNoTransaction(timestamp, sk, mine, sweep, hdchain_id, depth) ==
    <<[op |-> "insert_secret", timestamp |-> timestamp, secret |-> sk,
       mine |-> mine, sweep |-> sweep],
      [op |-> "update_mine", secret |-> sk, mine |-> mine],
      [op |-> "update_sweep", secret |-> sk, sweep |-> sweep],
      [op |-> "insert_hdkey", hdchain_id |-> hdchain_id, depth |-> depth,
       secret |-> sk],
      [op |-> "update_maxdepth", hdchain_id |-> hdchain_id]>>

\* ReserveSecret, lines 569-583.
ReserveSql(timestamp, sk, mine, sweep, hdchain_id, depth) ==
    <<[op |-> "begin"],
      [op |-> "insert_secret", timestamp |-> timestamp, secret |-> sk,
       mine |-> mine, sweep |-> sweep],
      [op |-> "update_mine", secret |-> sk, mine |-> mine],
      [op |-> "update_sweep", secret |-> sk, sweep |-> sweep],
      [op |-> "insert_hdkey", hdchain_id |-> hdchain_id, depth |-> depth,
       secret |-> sk],
      [op |-> "update_maxdepth", hdchain_id |-> hdchain_id],
      [op |-> "commit"]>>

\* The WalletSecret ReserveSecret returns (lines 567, 596-603).
ReserveResult(sk, mine, sweep) ==
    [id |-> 0 - 1, secret |-> sk, mine |-> mine, sweep |-> sweep]

\* The in-memory WalletOutput of output row id, with the WalletSecret of
\* its secret row when it has one (as Insert builds them, lines 811-832).
LoadOutput(db, id) ==
    LET row == db.output[id]
    IN  [id |-> id, hash |-> row.hash,
         secret |-> IF row.secret_id = SqlNull THEN <<>>
                    ELSE LET sid == row.secret_id[1]
                         IN  <<[id |-> sid, secret |-> db.secret[sid].secret,
                                mine |-> db.secret[sid].mine,
                                sweep |-> db.secret[sid].sweep]>>,
         amount |-> row.amount, spent |-> row.spent]

(***************************************************************************)
(* AddOutputToWallet (src/wallet.cc:651-677).                              *)
(***************************************************************************)
AddOutputSql(timestamp, hash, amount, secret_id, spent) ==
    <<[op |-> "insert_output", timestamp |-> timestamp, hash |-> hash,
       secret_id |-> IF secret_id # 0 THEN SqlInteger(secret_id) ELSE SqlNull,
       amount |-> amount, spent |-> spent]>>

\* The value AddOutputToWallet returns after ExecuteSql ended in state s.
AddOutputResult(s) == IF ~s.ok THEN 0 ELSE s.rowid

(***************************************************************************)
(* The Wallet constructor and destructor (src/wallet.cc:214-403).          *)
(***************************************************************************)
\* The recovery-log line of a master secret (line 245).
RootLine(timestamp, root) ==
    [timestamp |-> timestamp, event |-> "hdroot",
     payload |-> [hex |-> BytesToHexString(root), version |-> 1]]

\* The recovery-log line of a secret handed to AddSecretToWallet (line 616).
SecretLine(timestamp, sk, amount, mine, sweep) ==
    [timestamp |-> timestamp, event |-> HashTypeName(mine, sweep),
     payload |-> SecretWebcashStr(sk, amount)]

\* The wallet object is gone (the constructor threw, the destructor ran or
\* the process died): the connection is closed, which rolls an open
\* transaction back, and the file lock is released.
Gone(d) ==
    /\ disk' = d
    /\ conn' = d
    /\ inTx' = FALSE
    /\ rowid' = 0
    /\ pc' = "closed"
    /\ f' = NoFrame
    /\ m_hdroot' = 0
    /\ m_hdroot_id' = 0
    /\ m_db_lock' = 0
    /\ m_mut' = 0
    /\ t2' = NoThread

\* A lock_guard that never waits.
MutexFreeAlways(holder) == TRUE

\* std::lock_guard on m_mut (lines 391, 799, 872, 895, 925) goes on only when
\* no thread holds the mutex.
MutexFree(holder) == holder = 0

\* TryLock that succeeds whoever holds the lock.
TryLockAlways(holder) == TRUE

\* Line 352: try_lock on the file lock of P.db, held by holder (0: nobody).
TryLock(holder) == holder = 0

\* Lines 334-366 and 214-239: the lock is taken, the database opened,
\* UpgradeDatabase run and the hdroot rows counted.  With no root a new
\* one is drawn; with one root it is loaded and the recovery log touched.
WalletOpen ==
    /\ pc = "closed"
    /\ TryLock(m_db_lock)
    /\ \E t \in clock..MaxTime :
          /\ clock' = t
          /\ IF Len(disk.hdroot) = 0
             THEN \E root \in RootVals :
                     /\ m_hdroot' = root
                     /\ m_hdroot_id' = 0
                     /\ pc' = "root_log"
                     /\ f' = [NoFrame EXCEPT !.fn = "Wallet", !.now = t]
             ELSE \E opened \in BOOLEAN :
                     /\ m_hdroot' = IF opened /\ Len(disk.hdroot) = 1
                                    THEN disk.hdroot[1].secret ELSE 0
                     /\ m_hdroot_id' = IF opened /\ Len(disk.hdroot) = 1
                                       THEN 1 ELSE 0
                     /\ pc' = IF opened /\ Len(disk.hdroot) = 1
                              THEN "idle" ELSE "closed"
                     /\ f' = NoFrame
    /\ conn' = disk
    /\ inTx' = FALSE
    /\ rowid' = 0
    /\ UNCHANGED <<disk, bak, http, srvSpent, faults, crashes, ops>>
    /\ m_db_lock' = IF pc' = "closed" THEN 0 ELSE 1
    /\ UNCHANGED <<peer, m_mut, t2>>

\* RootAfterLog without the throw of lines 247-250.
RootAfterLogNoThrow(opened) == "root_db"

\* Lines 246-254: where GetOrCreateHDRoot goes on after trying to open
\* the recovery log.
RootAfterLog(opened) == IF opened THEN "root_db" ELSE "closed"

\* Lines 244-255: the hdroot line is appended to the recovery log and
\* flushed; the constructor throws when the log cannot be opened.
RootLog ==
    /\ pc = "root_log"
    /\ \E opened \in BOOLEAN :
          /\ bak' = IF opened THEN Append(bak, RootLine(f.now, m_hdroot)) ELSE bak
          /\ IF RootAfterLog(opened) = "closed"
             THEN Gone(disk)
             ELSE /\ pc' = RootAfterLog(opened)
                  /\ UNCHANGED <<dbvars, f, m_hdroot, m_hdroot_id, m_db_lock,
                               m_mut, t2>>
    /\ UNCHANGED <<http, srvSpent, clock, faults, crashes, ops>>
    /\ UNCHANGED peer

\* Lines 257-325 and 368-385: the root and its four chains are inserted
\* in one transaction, the root is loaded and the recovery log touched.
RootDb ==
    /\ pc = "root_db"
    /\ \E failAt \in FailChoices(4), opened \in BOOLEAN :
          LET s == ExecuteSql(RootSql(f.now, m_hdroot), failAt)
          IN  /\ faults' = IF failAt = 0 THEN faults ELSE faults + 1
              /\ IF s.ok /\ opened /\ Len(s.conn.hdroot) >= 1
                 THEN /\ disk' = s.disk
                      /\ conn' = s.conn
                      /\ inTx' = s.inTx
                      /\ rowid' = s.rowid
                      /\ m_hdroot_id' = 1
                      /\ m_hdroot' = s.conn.hdroot[1].secret
                      /\ pc' = "idle"
                      /\ f' = NoFrame
                      /\ UNCHANGED <<m_db_lock, m_mut, t2>>
                 ELSE Gone(s.disk)
    /\ UNCHANGED <<bak, http, srvSpent, clock, crashes, ops>>
    /\ UNCHANGED peer

\* Lines 388-403: the destructor.
WalletClose ==
    /\ pc = "idle"
    /\ MutexFree(m_mut)
    /\ conn' = disk
    /\ inTx' = FALSE
    /\ rowid' = 0
    /\ pc' = "closed"
    /\ f' = NoFrame
    /\ m_db_lock' = 0
    /\ m_hdroot' = 0
    /\ m_hdroot_id' = 0
    /\ m_mut' = 0
    /\ UNCHANGED <<disk, bak, http, srvSpent, clock, faults, crashes, ops>>
    /\ UNCHANGED <<peer, t2>>

\* The process dies: what was not committed is lost.
Crash ==
    /\ pc # "closed"
    /\ crashes < MaxCrashes
    /\ crashes' = crashes + 1
    /\ Gone(disk)
    /\ UNCHANGED <<bak, http, srvSpent, clock, faults, ops>>
    /\ UNCHANGED peer

(***************************************************************************)
(* Insert (src/wallet.cc:796-868) with AddSecretToWallet (606-649) and     *)
(* ReserveSecret (442-604).                                                *)
(***************************************************************************)
\* The amounts of the secrets handed to Insert.
InsertAmounts == {0, 1}

\* Lines 796-802: the mutex is taken and the clock read.
Insert ==
    /\ pc = "idle"
    /\ MutexFree(m_mut)
    /\ m_mut' = 1
    /\ ops < MaxOps
    /\ ops' = ops + 1
    /\ \E sk \in ExtSecrets, amount \in InsertAmounts, mine \in BOOLEAN,
          t \in clock..MaxTime :
          /\ clock' = t
          /\ f' = [NoFrame EXCEPT !.fn = "Insert", !.sk = sk,
                                  !.amount = amount, !.mine = mine, !.now = t]
    /\ pc' = "ins_log"
    /\ UNCHANGED <<dbvars, bak, m_hdroot, m_hdroot_id, http, srvSpent, faults,
                   crashes>>
    /\ UNCHANGED <<m_db_lock, peer, t2>>

\* AddSecretToWallet, lines 614-628: the line of the secret is appended
\* to the recovery log; a log that cannot be opened clears result.
InsertLog ==
    /\ pc = "ins_log"
    /\ \E opened \in BOOLEAN :
          /\ bak' = IF opened
                    THEN Append(bak, SecretLine(f.now, f.sk, f.amount, f.mine, TRUE))
                    ELSE bak
          /\ f' = [f EXCEPT !.logok = opened]
    /\ pc' = "ins_secret"
    /\ UNCHANGED <<dbvars, m_hdroot, m_hdroot_id, http, srvSpent, clock,
                   faults, crashes, ops>>
    /\ UNCHANGED <<m_db_lock, peer, m_mut, t2>>

\* The value AddSecretToWallet returns (lines 646-648) after ExecuteSql
\* ended in state s.
AddSecretResult(s, logok) == IF s.ok /\ logok THEN s.rowid ELSE 0

\* AddSecretToWallet, lines 631-648, and Insert, lines 805-809.
InsertSecret ==
    /\ pc = "ins_secret"
    /\ \E failAt \in FailChoices(5) :
          LET s == ExecuteSql(AddSecretSql(f.now, f.sk, f.mine, TRUE), failAt)
          IN  /\ SetDb(s, failAt)
              /\ f' = [f EXCEPT !.secret_id = AddSecretResult(s, f.logok),
                                !.result = FALSE]
              /\ pc' = IF AddSecretResult(s, f.logok) = 0
                       THEN "ins_ret" ELSE "ins_output"
    /\ UNCHANGED <<bak, m_hdroot, m_hdroot_id, http, srvSpent, clock, crashes,
                   ops>>
    /\ UNCHANGED <<m_db_lock, peer, m_mut, t2>>

\* The WalletOutput Insert builds for its new output row (lines 811-832).
InsertInput(output_id) ==
    [id |-> output_id, hash |-> SHA256(f.sk),
     secret |-> <<[id |-> f.secret_id, secret |-> f.sk, mine |-> f.mine,
                   sweep |-> TRUE]>>,
     amount |-> f.amount, spent |-> FALSE]

\* AddOutputToWallet called from Insert, lines 818-832.
InsertOutput ==
    /\ pc = "ins_output"
    /\ \E failAt \in FailChoices(1) :
          LET s == ExecuteSql(AddOutputSql(f.now, SHA256(f.sk), f.amount,
                                           f.secret_id, FALSE), failAt)
          IN  /\ SetDb(s, failAt)
              /\ f' = [f EXCEPT !.output_id = AddOutputResult(s),
                                !.inputs = IF AddOutputResult(s) = 0 THEN <<>>
                                           ELSE <<InsertInput(AddOutputResult(s))>>]
              /\ pc' = IF AddOutputResult(s) = 0 THEN "ins_ret" ELSE "ins_reserve"
    /\ UNCHANGED <<bak, m_hdroot, m_hdroot_id, http, srvSpent, clock, crashes,
                   ops>>
    /\ UNCHANGED <<m_db_lock, peer, m_mut, t2>>

\* SELECT id,maxdepth FROM 'hdchain' ... LIMIT 1 (lines 452-517): the ids
\* of the matching chains.
ChainIds(db, hdroot_id, mine, sweep) ==
    {i \in 1..Len(db.hdchain) :
        /\ db.hdchain[i].hdroot_id = hdroot_id
        /\ db.hdchain[i].chaincode = 0
        /\ db.hdchain[i].mine = mine
        /\ db.hdchain[i].sweep = sweep}

\* Insert reserving its change secret with sweep = false.
ChangeSweepFalse == FALSE

\* Line 852: the sweep flag Insert hands to ReserveSecret.
ChangeSweep == TRUE

\* ReserveSecret(now, mine = TRUE, sweep = TRUE) called from Insert
\* (line 852): the chain is read, the secret at its maxdepth derived and
\* inserted with its hdkey row; a failed statement throws.
InsertReserve ==
    /\ pc = "ins_reserve"
    /\ IF ChainIds(conn, m_hdroot_id, TRUE, ChangeSweep) = {}
       THEN /\ f' = [f EXCEPT !.threw = TRUE]
            /\ pc' = "ins_ret"
            /\ UNCHANGED <<dbvars, faults>>
       ELSE \E failAt \in FailChoices(7) :
               LET hdchain_id == MinOf(ChainIds(conn, m_hdroot_id, TRUE, ChangeSweep))
                   depth == conn.hdchain[hdchain_id].maxdepth
                   sk == DeriveSecret(m_hdroot, TRUE, ChangeSweep, depth)
                   s == ExecuteSql(ReserveSql(f.now, sk, TRUE, ChangeSweep, hdchain_id,
                                              depth), failAt)
               IN  /\ SetDb(s, failAt)
                   /\ f' = IF s.ok
                           THEN [f EXCEPT !.outputs =
                                   <<<<ReserveResult(sk, TRUE, ChangeSweep), f.amount>>>>]
                           ELSE [f EXCEPT !.threw = TRUE]
                   /\ pc' = IF s.ok THEN "rep_entry" ELSE "ins_ret"
    /\ UNCHANGED <<bak, m_hdroot, m_hdroot_id, http, srvSpent, clock, crashes,
                   ops>>
    /\ UNCHANGED <<m_db_lock, peer, m_mut, t2>>

(***************************************************************************)
(* ReplaceWebcash (src/wallet.cc:679-794).                                 *)
(***************************************************************************)
RECURSIVE SumAmounts(_, _)
\* total_in / total_out: the running sum over the first k amounts.
SumAmounts(amounts, k) ==
    IF k = 0 THEN 0 ELSE AmountAdd(SumAmounts(amounts, k - 1), amounts[k])

InputAmounts(inputs) == [i \in 1..Len(inputs) |-> inputs[i].amount]
OutputAmounts(outputs) == [i \in 1..Len(outputs) |-> outputs[i][2]]

\* The loop over the inputs returns {} for this input.
InputRejected(webcash) ==
    \/ webcash.secret = <<>>
    \/ webcash.spent

\* The loop over the outputs returns {} for this output.
OutputRejected(webcash) == webcash[2] < 1

\* The precondition checks: TRUE when none of them returns {}.
ReplaceChecksPass(inputs, outputs) ==
    /\ inputs # <<>>
    /\ \A i \in 1..Len(inputs) : ~InputRejected(inputs[i])
    /\ outputs # <<>>
    /\ \A i \in 1..Len(outputs) : ~OutputRejected(outputs[i])
    /\ SumAmounts(InputAmounts(inputs), Len(inputs))
         = SumAmounts(OutputAmounts(outputs), Len(outputs))

\* The JSON arrays "webcashes" and "new_webcashes".
RequestIn(inputs) ==
    [i \in 1..Len(inputs) |->
        SecretWebcashStr(inputs[i].secret[1].secret, inputs[i].amount)]
RequestOut(outputs) ==
    [i \in 1..Len(outputs) |->
        SecretWebcashStr(outputs[i][1].secret, outputs[i][2])]

\* Lines 683-743: the checks, then the POST of the request.
ReplaceSubmit ==
    /\ pc = "rep_entry"
    /\ IF ReplaceChecksPass(f.inputs, f.outputs)
       THEN /\ http' = [state |-> "req", status |-> 0,
                        webcashes |-> RequestIn(f.inputs),
                        new_webcashes |-> RequestOut(f.outputs),
                        accepted |-> FALSE]
            /\ pc' = "rep_wait"
            /\ f' = [f EXCEPT !.pre = conn, !.sent = TRUE]
       ELSE /\ http' = http
            /\ pc' = "rep_ret"
            /\ f' = [f EXCEPT !.pre = conn, !.ret = <<>>]
    /\ UNCHANGED <<dbvars, bak, m_hdroot, m_hdroot_id, srvSpent, clock,
                   faults, crashes, ops>>
    /\ UNCHANGED <<m_db_lock, peer, m_mut, t2>>

\* The secrets a request spends.
RequestSecrets == {http.webcashes[i].secret : i \in 1..Len(http.webcashes)}

\* The server commits the exchange and answers 200.
ServerAccept ==
    /\ http.state = "req"
    /\ RequestSecrets \cap srvSpent = {}
    /\ srvSpent' = srvSpent \cup RequestSecrets
    /\ http' = [http EXCEPT !.state = "resp", !.status = 200, !.accepted = TRUE]
    /\ UNCHANGED <<dbvars, bak, pc, f, m_hdroot, m_hdroot_id, clock, faults,
                   crashes, ops>>
    /\ UNCHANGED <<m_db_lock, peer, m_mut, t2>>

\* The server commits the exchange, and its answer is lost or arrives
\* after the 60 second timeout.
ServerAcceptLost ==
    /\ http.state = "req"
    /\ RequestSecrets \cap srvSpent = {}
    /\ srvSpent' = srvSpent \cup RequestSecrets
    /\ http' = [http EXCEPT !.state = "err", !.accepted = TRUE]
    /\ UNCHANGED <<dbvars, bak, pc, f, m_hdroot, m_hdroot_id, clock, faults,
                   crashes, ops>>
    /\ UNCHANGED <<m_db_lock, peer, m_mut, t2>>

\* The server rejects the request with a status other than 200.
ServerReject ==
    /\ http.state = "req"
    /\ http' = [http EXCEPT !.state = "resp", !.status = 500]
    /\ UNCHANGED <<dbvars, bak, pc, f, m_hdroot, m_hdroot_id, srvSpent, clock,
                   faults, crashes, ops>>
    /\ UNCHANGED <<m_db_lock, peer, m_mut, t2>>

\* The request never reaches the server.
TransportFail ==
    /\ http.state = "req"
    /\ http' = [http EXCEPT !.state = "err"]
    /\ UNCHANGED <<dbvars, bak, pc, f, m_hdroot, m_hdroot_id, srvSpent, clock,
                   faults, crashes, ops>>
    /\ UNCHANGED <<m_db_lock, peer, m_mut, t2>>

\* ResponseOk without the test of the status code (lines 757-760 left out).
ResponseOkAnyStatus(h) == h.state = "resp"

\* ResponseOk without the test for a transport error (lines 746-750 left
\* out).
ResponseOkNoTransportCheck(h) == h.state = "err" \/ h.status = 200

\* TRUE when ReplaceWebcash goes on to the commit phase with this outcome
\* of the POST (lines 746-760).
ResponseOk(h) == h.state = "resp" /\ h.status = 200

\* Lines 745-760: the outcome of the POST is looked at.
ReplaceResponse ==
    /\ pc = "rep_wait"
    /\ http.state \in {"resp", "err"}
    /\ IF ResponseOk(http)
       THEN pc' = "rep_spend" /\ f' = [f EXCEPT !.k = 1]
       ELSE pc' = "rep_ret" /\ f' = [f EXCEPT !.ret = <<>>]
    /\ UNCHANGED <<dbvars, bak, m_hdroot, m_hdroot_id, http, srvSpent, clock,
                   faults, crashes, ops>>
    /\ UNCHANGED <<m_db_lock, peer, m_mut, t2>>

\* MarkSpentSql with the id bound under a name the statement does not
\* use: :output_id stays NULL and the UPDATE matches no row.
MarkSpentSqlUnbound(webcash) ==
    <<[op |-> "update_spent", output_id |-> 0]>>

\* Lines 768-771: the statement that marks one input spent.
MarkSpentSql(webcash) == <<[op |-> "update_spent", output_id |-> webcash.id]>>

\* AfterMarkSpent leaving ReplaceWebcash at the first failed UPDATE.
AfterMarkSpentStop(ok, more) ==
    IF ~ok THEN "rep_ret" ELSE IF more THEN "rep_spend" ELSE "rep_out"

\* Lines 771-774: after the UPDATE of one input, failed or not, the loop
\* goes on to the next input, and after the last one to the outputs.
AfterMarkSpent(ok, more) == IF more THEN "rep_spend" ELSE "rep_out"

\* Lines 764-776: one round of the loop that marks the inputs spent.
ReplaceMarkSpent ==
    /\ pc = "rep_spend"
    /\ \E failAt \in FailChoices(1) :
          LET s == ExecuteSql(MarkSpentSql(f.inputs[f.k]), failAt)
          IN  /\ SetDb(s, failAt)
              /\ f' = [f EXCEPT !.inputs[f.k].spent = TRUE,
                                !.failed = @ \/ ~s.ok,
                                !.k = IF f.k < Len(f.inputs) THEN f.k + 1 ELSE 1]
              /\ pc' = AfterMarkSpent(s.ok, f.k < Len(f.inputs))
    /\ UNCHANGED <<bak, m_hdroot, m_hdroot_id, http, srvSpent, clock, crashes,
                   ops>>
    /\ UNCHANGED <<m_db_lock, peer, m_mut, t2>>

\* Lines 781-791: one round of the loop that records the outputs.
ReplaceAddOutput ==
    /\ pc = "rep_out"
    /\ \E failAt \in FailChoices(1) :
          LET webcash == f.outputs[f.k]
              s == ExecuteSql(AddOutputSql(f.now, SHA256(webcash[1].secret),
                                           webcash[2], webcash[1].id, FALSE),
                              failAt)
              id == AddOutputResult(s)
          IN  /\ SetDb(s, failAt)
              /\ f' = [f EXCEPT !.ret = IF id = 0 THEN @
                                        ELSE Append(@, <<webcash[1], id>>),
                                !.failed = @ \/ ~s.ok,
                                !.k = f.k + 1]
    /\ pc' = IF f.k < Len(f.outputs) THEN "rep_out" ELSE "rep_ret"
    /\ UNCHANGED <<bak, m_hdroot, m_hdroot_id, http, srvSpent, clock, crashes,
                   ops>>
    /\ UNCHANGED <<m_db_lock, peer, m_mut, t2>>

\* Line 793, for a direct caller of ReplaceWebcash: the call is over.
ReplaceReturn ==
    /\ pc = "rep_ret"
    /\ f.fn = "ReplaceWebcash"
    /\ pc' = "idle"
    /\ f' = NoFrame
    /\ UNCHANGED <<dbvars, bak, m_hdroot, m_hdroot_id, http, srvSpent, clock,
                   faults, crashes, ops>>
    /\ UNCHANGED <<m_db_lock, peer, m_mut, t2>>

\* Lines 861-867: Insert looks at what ReplaceWebcash returned.
InsertAfterReplace ==
    /\ pc = "rep_ret"
    /\ f.fn = "Insert"
    /\ pc' = "ins_ret"
    /\ f' = [f EXCEPT !.result = (Len(f.ret) = 1)]
    /\ UNCHANGED <<dbvars, bak, m_hdroot, m_hdroot_id, http, srvSpent, clock,
                   faults, crashes, ops>>
    /\ UNCHANGED <<m_db_lock, peer, m_mut, t2>>

\* Insert returns (or its exception leaves it): the mutex is released.
InsertReturn ==
    /\ pc = "ins_ret"
    /\ pc' = "idle"
    /\ f' = NoFrame
    /\ UNCHANGED <<dbvars, bak, m_hdroot, m_hdroot_id, http, srvSpent, clock,
                   faults, crashes, ops>>
    /\ m_mut' = 0
    /\ UNCHANGED <<m_db_lock, peer, t2>>

(***************************************************************************)
(* Spec: a wallet file from its creation on, opened, used through Insert,  *)
(* closed and crashed.                                                     *)
(***************************************************************************)
Init ==
    /\ disk = EmptyDb
    /\ conn = EmptyDb
    /\ inTx = FALSE
    /\ rowid = 0
    /\ bak = <<>>
    /\ pc = "closed"
    /\ f = NoFrame
    /\ m_hdroot = 0
    /\ m_hdroot_id = 0
    /\ http = NoHttp
    /\ srvSpent = {}
    /\ clock = 0
    /\ faults = 0
    /\ crashes = 0
    /\ ops = 0
    /\ m_db_lock = 0
    /\ peer = "closed"
    /\ m_mut = 0
    /\ t2 = NoThread

Next ==
    \/ WalletOpen
    \/ RootLog
    \/ RootDb
    \/ WalletClose
    \/ Crash
    \/ Insert
    \/ InsertLog
    \/ InsertSecret
    \/ InsertOutput
    \/ InsertReserve
    \/ ReplaceSubmit
    \/ ServerAccept
    \/ ServerAcceptLost
    \/ ServerReject
    \/ TransportFail
    \/ ReplaceResponse
    \/ ReplaceMarkSpent
    \/ ReplaceAddOutput
    \/ InsertAfterReplace
    \/ InsertReturn

Spec == Init /\ [][Next]_vars

(***************************************************************************)
(* SpecLedger: the wallet driven through direct calls of ReserveSecret,    *)
(* AddSecretToWallet, AddOutputToWallet and AcceptTerms, with opens,       *)
(* closes, a crash and a failed statement.                                 *)
(***************************************************************************)
\* The secrets handed to AddSecretToWallet: an external one, and the one
\* the chain (FALSE, TRUE) of root 1 derives at depth 0.
LedgerSecrets == {<<1>>, DeriveSecret(1, FALSE, TRUE, 0)}

\* The terms bodies handed to AcceptTerms.
Bodies == {1}

\* The timestamps a direct caller hands to ReserveSecret, AddSecretToWallet
\* and AddOutputToWallet.
CallTimes == {0}

\* ReserveSecret (lines 442-604) called with (mine, sweep): the chain is
\* read, the secret at its maxdepth derived and inserted with its hdkey
\* row, maxdepth incremented; a missing chain or a failed statement throws.
ReserveSecret ==
    /\ pc = "idle"
    /\ ops < MaxCalls
    /\ ops' = ops + 1
    /\ pc' = "call_ret"
    /\ \E mine \in BOOLEAN, sweep \in BOOLEAN, t \in CallTimes :
          /\ IF ChainIds(conn, m_hdroot_id, mine, sweep) = {}
             THEN /\ f' = [NoFrame EXCEPT !.known = f.known, !.fn = "ReserveSecret", !.mine = mine,
                                          !.sweep = sweep, !.now = t,
                                          !.pre = conn, !.threw = TRUE]
                  /\ UNCHANGED <<dbvars, faults>>
             ELSE \E failAt \in FailChoices(7) :
                     LET hdchain_id == MinOf(ChainIds(conn, m_hdroot_id, mine, sweep))
                         depth == conn.hdchain[hdchain_id].maxdepth
                         sk == DeriveSecret(m_hdroot, mine, sweep, depth)
                         s == ExecuteSql(ReserveSql(t, sk, mine, sweep, hdchain_id,
                                                    depth), failAt)
                     IN  /\ SetDb(s, failAt)
                         /\ f' = [NoFrame EXCEPT
                                    !.fn = "ReserveSecret", !.mine = mine,
                                    !.sweep = sweep, !.now = t, !.pre = conn,
                                    !.sk = sk, !.hdchain_id = hdchain_id,
                                    !.depth = depth, !.threw = ~s.ok,
                                    !.ret = IF s.ok
                                            THEN <<ReserveResult(sk, mine, sweep)>>
                                            ELSE <<>>]
    /\ UNCHANGED <<bak, m_hdroot, m_hdroot_id, http, srvSpent, clock, crashes,
                   m_db_lock, peer, m_mut, t2>>

\* AfterSecretLog returning to the caller when the log could not be opened.
AfterSecretLogAbort(opened) == IF opened THEN "add_db" ELSE "call_ret"

\* Lines 617-626: where AddSecretToWallet goes on after trying to open the
\* recovery log: to the database insert, whether the log opened or not.
AfterSecretLog(opened) == "add_db"

\* AddSecretToWallet (lines 606-628) called with (sk, mine, sweep): the
\* line of the secret is appended to the recovery log; a log that cannot
\* be opened clears result.
AddSecretLog ==
    /\ pc = "idle"
    /\ ops < MaxCalls
    /\ ops' = ops + 1
    /\ \E sk \in LedgerSecrets, mine \in BOOLEAN, sweep \in BOOLEAN,
          t \in CallTimes, opened \in BOOLEAN :
          /\ bak' = IF opened THEN Append(bak, SecretLine(t, sk, 1, mine, sweep))
                    ELSE bak
          /\ f' = [NoFrame EXCEPT !.known = f.known, !.fn = "AddSecretToWallet", !.sk = sk,
                                  !.amount = 1, !.mine = mine, !.sweep = sweep,
                                  !.now = t, !.logok = opened, !.pre = conn]
          /\ pc' = AfterSecretLog(opened)
    /\ UNCHANGED <<dbvars, m_hdroot, m_hdroot_id, http, srvSpent, clock, faults,
                   crashes, m_db_lock, peer, m_mut, t2>>

\* AddSecretToWallet, lines 631-648: the insert-or-merge transaction and
\* the returned id.
AddSecretDb ==
    /\ pc = "add_db"
    /\ pc' = "call_ret"
    /\ \E failAt \in FailChoices(5) :
          LET s == ExecuteSql(AddSecretSql(f.now, f.sk, f.mine, f.sweep), failAt)
          IN  /\ SetDb(s, failAt)
              /\ f' = [f EXCEPT !.secret_id = AddSecretResult(s, f.logok),
                                !.failed = ~s.ok]
    /\ UNCHANGED <<bak, m_hdroot, m_hdroot_id, http, srvSpent, clock, crashes,
                   ops, m_db_lock, peer, m_mut, t2>>

\* The secret ids a direct caller hands to AddOutputToWallet: none (0) or
\* the id of a secret row.
OutputSecretIds == {0} \cup (1..Len(conn.secret))

\* AddOutputToWallet (lines 651-677) called for an unspent output of
\* amount 1 of the secret with row id secret_id, or of an unknown secret.
AddOutputToWallet ==
    /\ pc = "idle"
    /\ ops < MaxCalls
    /\ ops' = ops + 1
    /\ pc' = "call_ret"
    /\ \E secret_id \in OutputSecretIds, t \in CallTimes,
          failAt \in FailChoices(1) :
          LET hash == IF secret_id = 0 THEN SHA256(<<2>>)
                      ELSE SHA256(conn.secret[secret_id].secret)
              s == ExecuteSql(AddOutputSql(t, hash, 1, secret_id, FALSE), failAt)
          IN  /\ SetDb(s, failAt)
              /\ f' = [NoFrame EXCEPT !.known = f.known, !.fn = "AddOutputToWallet", !.now = t,
                                      !.secret_id = secret_id, !.pre = conn,
                                      !.output_id = AddOutputResult(s),
                                      !.failed = ~s.ok]
    /\ UNCHANGED <<bak, m_hdroot, m_hdroot_id, http, srvSpent, clock, crashes,
                   m_db_lock, peer, m_mut, t2>>

\* SELECT EXISTS(SELECT 1 FROM 'terms' WHERE body=?), lines 893-921.
AreTermsAccepted(db, body) ==
    \E i \in 1..Len(db.terms) : db.terms[i].body = body

\* SELECT EXISTS(SELECT 1 FROM 'terms'), lines 870-891.
HaveAcceptedTerms(db) == Len(db.terms) > 0

\* AcceptTerms, lines 926-932.
AcceptTermsSql(timestamp, body) ==
    <<[op |-> "insert_terms", body |-> body, timestamp |-> timestamp]>>

\* AcceptTerms (lines 923-938) called by the thread of the other calls:
\* the mutex is free, taken for the check, released, and taken again for
\* the insert; a failed insert throws.
AcceptTerms ==
    /\ pc = "idle"
    /\ MutexFree(m_mut)
    /\ ops < MaxCalls
    /\ ops' = ops + 1
    /\ pc' = "call_ret"
    /\ \E body \in Bodies, t \in clock..MaxTime :
          /\ clock' = t
          /\ IF AreTermsAccepted(conn, body)
             THEN /\ f' = [NoFrame EXCEPT !.known = f.known, !.fn = "AcceptTerms", !.now = t,
                                          !.pre = conn]
                  /\ UNCHANGED <<dbvars, faults>>
             ELSE \E failAt \in FailChoices(1) :
                     LET s == ExecuteSql(AcceptTermsSql(t, body), failAt)
                     IN  /\ SetDb(s, failAt)
                         /\ f' = [NoFrame EXCEPT !.known = f.known, !.fn = "AcceptTerms", !.now = t,
                                                 !.pre = conn, !.threw = ~s.ok]
    /\ UNCHANGED <<bak, m_hdroot, m_hdroot_id, http, srvSpent, crashes,
                   m_db_lock, peer, m_mut, t2>>

\* The direct call returns to its caller, or its exception reaches it.
CallReturn ==
    /\ pc = "call_ret"
    /\ pc' = "idle"
    /\ f' = [NoFrame EXCEPT !.known =
                IF f.fn = "AddSecretToWallet" /\ f.secret_id # 0
                THEN f.known \cup {<<f.sk, f.secret_id>>} ELSE f.known]
    /\ UNCHANGED <<dbvars, bak, m_hdroot, m_hdroot_id, http, srvSpent, clock,
                   faults, crashes, ops, m_db_lock, peer, m_mut, t2>>


(***************************************************************************)
(* SpecReplace: ReplaceWebcash called on the inputs and outputs a direct   *)
(* caller can hand it, in a wallet that holds two imported outputs and     *)
(* MaxOut reserved secrets.                                                *)
(***************************************************************************)
FreshConn == [disk |-> EmptyDb, conn |-> EmptyDb, inTx |-> FALSE, rowid |-> 0,
              ok |-> TRUE]

RECURSIVE Reserved(_, _, _)
\* The connection after n ReserveSecret(mine = TRUE, sweep = TRUE) calls.
Reserved(s, root, n) ==
    IF n = 0 THEN s
    ELSE LET t == Reserved(s, root, n - 1)
         IN  RunStmts(t, ReserveSql(0, DeriveSecret(root, TRUE, TRUE, n - 1),
                                    TRUE, TRUE, 4, n - 1), 1, 0)

\* The connection of a wallet with root 1 after AddSecretToWallet and
\* AddOutputToWallet of the two external secrets (amounts a1 and a2, the
\* second output with secret id sid2 and spent flag spent2) and MaxOut
\* ReserveSecret calls.
Seeded(a1, a2, sid2, spent2) ==
    Reserved(
      RunStmts(
        RunStmts(
          RunStmts(
            RunStmts(
              RunStmts(FreshConn, RootSql(0, 1), 1, 0),
              AddSecretSql(0, <<1>>, FALSE, TRUE), 1, 0),
            AddOutputSql(0, SHA256(<<1>>), a1, 1, FALSE), 1, 0),
          AddSecretSql(0, <<2>>, FALSE, TRUE), 1, 0),
        AddOutputSql(0, SHA256(<<2>>), a2, sid2, spent2), 1, 0),
      1, MaxOut)

\* The second seeded output: held with or without its secret, spent or not.
SecondOutputs == {<<2, FALSE>>, <<2, TRUE>>, <<0, FALSE>>}

\* The sequences over S of length at most n.
SeqUpTo(S, n) == UNION {[1..k -> S] : k \in 0..n}

InitReplace ==
    /\ \E a1 \in Amounts, a2 \in {1, MaxAmount}, o2 \in SecondOutputs :
          LET s == Seeded(a1, a2, o2[1], o2[2])
          IN  /\ disk = s.disk
              /\ conn = s.conn
              /\ inTx = s.inTx
              /\ rowid = s.rowid
              /\ \E ins \in SeqUpTo({1, 2}, MaxIn), amts \in SeqUpTo(Amounts, MaxOut) :
                    f = [NoFrame EXCEPT
                           !.fn = "ReplaceWebcash",
                           !.inputs = [i \in 1..Len(ins) |-> LoadOutput(s.conn, ins[i])],
                           !.outputs = [i \in 1..Len(amts) |->
                               <<ReserveResult(DeriveSecret(1, TRUE, TRUE, i - 1),
                                               TRUE, TRUE), amts[i]>>]]
    /\ bak = <<>>
    /\ pc = "rep_entry"
    /\ m_hdroot = 1
    /\ m_hdroot_id = 1
    /\ http = NoHttp
    /\ srvSpent = {}
    /\ clock = 0
    /\ faults = 0
    /\ crashes = 0
    /\ ops = 0
    /\ m_db_lock = 1
    /\ peer = "closed"
    /\ m_mut = 0
    /\ t2 = NoThread

NextReplace ==
    \/ ReplaceSubmit
    \/ ServerAccept
    \/ ServerAcceptLost
    \/ ServerReject
    \/ TransportFail
    \/ ReplaceResponse
    \/ ReplaceMarkSpent
    \/ ReplaceAddOutput
    \/ ReplaceReturn

SpecReplace == InitReplace /\ [][NextReplace]_vars

(***************************************************************************)
(* SpecLedger starts from a wallet just constructed on a new path, with    *)
(* root 1.                                                                 *)
(***************************************************************************)
\* The connection after the constructor created root 1.
Constructed == RunStmts(FreshConn, RootSql(0, 1), 1, 0)

InitLedger ==
    /\ disk = Constructed.disk
    /\ conn = Constructed.conn
    /\ inTx = FALSE
    /\ rowid = Constructed.rowid
    /\ bak = <<RootLine(0, 1)>>
    /\ pc = "idle"
    /\ f = NoFrame
    /\ m_hdroot = 1
    /\ m_hdroot_id = 1
    /\ http = NoHttp
    /\ srvSpent = {}
    /\ clock = 0
    /\ faults = 0
    /\ crashes = 0
    /\ ops = 0
    /\ m_db_lock = 1
    /\ peer = "closed"
    /\ m_mut = 0
    /\ t2 = NoThread

NextLedger ==
    \/ WalletOpen
    \/ WalletClose
    \/ Crash
    \/ ReserveSecret
    \/ AddSecretLog
    \/ AddSecretDb
    \/ AddOutputToWallet
    \/ AcceptTerms
    \/ CallReturn

SpecLedger == InitLedger /\ [][NextLedger]_vars

(***************************************************************************)
(* SpecProcs: two processes construct and destroy a Wallet on the same     *)
(* base path.  The first is the process of the specifications above; of    *)
(* the second only the constructor and the destructor are followed.        *)
(***************************************************************************)
\* The connection of the second process when it opens the database.
PeerConn == [disk |-> disk, conn |-> disk, inTx |-> FALSE, rowid |-> 0,
             ok |-> TRUE]

\* The database file after GetOrCreateHDRoot of the second process
\* (lines 214-332): untouched when it holds a root.
PeerRootDb(root) ==
    IF Len(disk.hdroot) = 0 THEN RunStmts(PeerConn, RootSql(clock, root), 1, 0).disk
    ELSE disk

\* The recovery log after GetOrCreateHDRoot of the second process.
PeerRootLog(root) ==
    IF Len(disk.hdroot) = 0 THEN Append(bak, RootLine(clock, root)) ELSE bak

\* The constructor (lines 334-386) run by the second process: with the
\* lock taken by another process it throws at line 355; with the lock
\* free it takes it and goes on as the first process does.
PeerOpen ==
    /\ peer = "closed"
    /\ IF TryLock(m_db_lock)
       THEN \E root \in RootVals :
               /\ peer' = "open"
               /\ m_db_lock' = 2
               /\ disk' = PeerRootDb(root)
               /\ bak' = PeerRootLog(root)
               /\ conn' = IF pc = "closed" THEN PeerRootDb(root) ELSE conn
       ELSE /\ peer' = "failed"
            /\ UNCHANGED <<m_db_lock, disk, bak, conn>>
    /\ UNCHANGED <<inTx, rowid, pc, f, m_hdroot, m_hdroot_id, http, srvSpent,
                   clock, faults, crashes, ops, m_mut, t2>>

\* The second process ends after the exception of line 355.
PeerExit ==
    /\ peer = "failed"
    /\ peer' = "closed"
    /\ UNCHANGED <<dbvars, bak, pc, f, m_hdroot, m_hdroot_id, http, srvSpent,
                   clock, faults, crashes, ops, m_db_lock, m_mut, t2>>

\* The destructor (lines 388-403) run by the second process, or its death.
PeerClose ==
    /\ peer = "open"
    /\ peer' = "closed"
    /\ m_db_lock' = 0
    /\ UNCHANGED <<dbvars, bak, pc, f, m_hdroot, m_hdroot_id, http, srvSpent,
                   clock, faults, crashes, ops, m_mut, t2>>

NextProcs ==
    \/ WalletOpen
    \/ RootLog
    \/ RootDb
    \/ WalletClose
    \/ Crash
    \/ AcceptTerms
    \/ CallReturn
    \/ PeerOpen
    \/ PeerExit
    \/ PeerClose

SpecProcs == Init /\ [][NextProcs]_vars

(***************************************************************************)
(* SpecThreads: two threads of one process use one constructed Wallet.     *)
(* The first calls Insert, the second the three operations on the terms    *)
(* table (src/wallet.cc:870-938).                                          *)
(***************************************************************************)
TermsCalls == {"HaveAcceptedTerms", "AreTermsAccepted", "AcceptTerms"}

\* The second thread calls one of the three operations and reaches the
\* lock_guard of lines 872 or 895 (AcceptTerms through line 925's call of
\* AreTermsAccepted).
T2Call ==
    /\ pc \notin {"closed", "root_log", "root_db"}
    /\ t2.pc = "idle"
    /\ ops < MaxCalls
    /\ ops' = ops + 1
    /\ \E fn \in TermsCalls, body \in Bodies :
          t2' = [NoThread EXCEPT !.pc = "lock", !.fn = fn, !.body = body]
    /\ UNCHANGED <<dbvars, bak, pc, f, m_hdroot, m_hdroot_id, http, srvSpent,
                   clock, faults, crashes, m_db_lock, peer, m_mut>>

\* The lock_guard of lines 799, 872 and 895 gets the mutex.
T2Lock ==
    /\ t2.pc = "lock"
    /\ MutexFree(m_mut)
    /\ m_mut' = 2
    /\ t2' = [t2 EXCEPT !.pc = IF t2.fn = "Insert" THEN "ins_add" ELSE "read"]
    /\ UNCHANGED <<dbvars, bak, pc, f, m_hdroot, m_hdroot_id, http, srvSpent,
                   clock, faults, crashes, ops, m_db_lock, peer>>

\* The answer of the SELECT of lines 873-890 and 896-920.
TermsAnswer(fn, db, body) ==
    IF fn = "HaveAcceptedTerms" THEN HaveAcceptedTerms(db)
    ELSE AreTermsAccepted(db, body)

\* Lines 873-890 and 896-920: the SELECT runs and the lock_guard ends
\* with the function, by its return or by its exception; AcceptTerms goes
\* on to the lock_guard of line 925 when the body is not accepted.  On a
\* Wallet whose destructor has run, m_db is nullptr (line 395) and
\* sqlite3_prepare_v2 fails, so the function throws.
T2Read ==
    /\ t2.pc = "read"
    /\ m_mut' = 0
    /\ IF pc = "closed"
       THEN /\ t2' = [t2 EXCEPT !.pc = "ret", !.threw = TRUE]
            /\ faults' = faults
       ELSE \E failAt \in FailChoices(1) :
          /\ faults' = IF failAt = 0 THEN faults ELSE faults + 1
          /\ t2' = IF failAt = 0 /\ t2.fn = "AcceptTerms"
                       /\ ~TermsAnswer(t2.fn, conn, t2.body)
                   THEN [t2 EXCEPT !.pc = "lock2"]
                   ELSE [t2 EXCEPT !.pc = "ret", !.threw = failAt # 0,
                            !.have = failAt = 0 /\ TermsAnswer(t2.fn, conn, t2.body)]
    /\ UNCHANGED <<dbvars, bak, pc, f, m_hdroot, m_hdroot_id, http, srvSpent,
                   clock, crashes, ops, m_db_lock, peer>>

\* The lock_guard of line 925 gets the mutex.
T2Lock2 ==
    /\ t2.pc = "lock2"
    /\ MutexFree(m_mut)
    /\ m_mut' = 2
    /\ t2' = [t2 EXCEPT !.pc = "write"]
    /\ UNCHANGED <<dbvars, bak, pc, f, m_hdroot, m_hdroot_id, http, srvSpent,
                   clock, faults, crashes, ops, m_db_lock, peer>>

\* Lines 926-936: INSERT OR IGNORE under the mutex, which the end of the
\* block or the exception releases.  On a Wallet whose destructor has run,
\* m_db is nullptr and ExecuteSql fails at sqlite3_prepare_v2.
T2Write ==
    /\ t2.pc = "write"
    /\ m_mut' = 0
    /\ \E t \in clock..MaxTime :
          /\ clock' = t
          /\ IF pc = "closed"
             THEN /\ t2' = [t2 EXCEPT !.pc = "ret", !.threw = TRUE]
                  /\ UNCHANGED <<dbvars, faults>>
             ELSE \E failAt \in FailChoices(1) :
                     LET s == ExecuteSql(AcceptTermsSql(t, t2.body), failAt)
                     IN  /\ SetDb(s, failAt)
                         /\ t2' = [t2 EXCEPT !.pc = "ret", !.threw = ~s.ok]
    /\ UNCHANGED <<bak, pc, f, m_hdroot, m_hdroot_id, http, srvSpent, crashes,
                   ops, m_db_lock, peer>>

\* The call of the second thread is over.
T2Return ==
    /\ t2.pc = "ret"
    /\ t2' = NoThread
    /\ UNCHANGED <<dbvars, bak, pc, f, m_hdroot, m_hdroot_id, http, srvSpent,
                   clock, faults, crashes, ops, m_db_lock, peer, m_mut>>

NextThreads ==
    \/ Insert
    \/ InsertLog
    \/ InsertSecret
    \/ InsertOutput
    \/ InsertReserve
    \/ ReplaceSubmit
    \/ ServerAccept
    \/ ServerAcceptLost
    \/ ServerReject
    \/ TransportFail
    \/ ReplaceResponse
    \/ ReplaceMarkSpent
    \/ ReplaceAddOutput
    \/ InsertAfterReplace
    \/ InsertReturn
    \/ T2Call
    \/ T2Lock
    \/ T2Read
    \/ T2Lock2
    \/ T2Write
    \/ T2Return

SpecThreads == InitLedger /\ [][NextThreads]_vars

(***************************************************************************)
(* SpecClose: one thread destroys the constructed Wallet while a second    *)
(* thread calls the operations on the terms table, and a second process    *)
(* tries to open the same path.                                            *)
(***************************************************************************)
NextClose ==
    \/ WalletClose
    \/ T2Call
    \/ T2Lock
    \/ T2Read
    \/ T2Lock2
    \/ T2Write
    \/ T2Return
    \/ PeerOpen
    \/ PeerExit
    \/ PeerClose

SpecClose == InitLedger /\ [][NextClose]_vars

(***************************************************************************)
(* SpecInserts: two threads of one process call Insert on one constructed  *)
(* Wallet.  The Insert of the first thread is the one of Spec; the Insert  *)
(* of the second thread has its own locals (in t2), its statements fail    *)
(* only in ReserveSecret, its amount is 1, and its request and the         *)
(* server's answer are one step.                                           *)
(***************************************************************************)
\* The second thread calls Insert(sk, mine = FALSE) and reaches the
\* lock_guard of line 799.
T2Insert ==
    /\ pc \notin {"closed", "root_log", "root_db"}
    /\ t2.pc = "idle"
    /\ ops < MaxCalls
    /\ ops' = ops + 1
    /\ \E sk \in ExtSecrets :
          t2' = [NoThread EXCEPT !.pc = "lock", !.fn = "Insert", !.sk = sk]
    /\ UNCHANGED <<dbvars, bak, pc, f, m_hdroot, m_hdroot_id, http, srvSpent,
                   clock, faults, crashes, m_db_lock, peer, m_mut>>

\* Lines 802-824 on the second thread: the clock is read, the line of the
\* secret logged, the secret and its output row inserted; a zero id ends
\* the Insert, which releases the mutex.
T2InsertAdd ==
    /\ t2.pc = "ins_add"
    /\ bak' = Append(bak, SecretLine(clock, t2.sk, 1, FALSE, TRUE))
    /\ LET s == ExecuteSql(AddSecretSql(clock, t2.sk, FALSE, TRUE), 0)
           id == AddSecretResult(s, TRUE)
           o == RunStmts(s, AddOutputSql(clock, SHA256(t2.sk), 1, id, FALSE), 1, 0)
       IN  IF id = 0
           THEN /\ SetDb(s, 0)
                /\ m_mut' = 0
                /\ t2' = [t2 EXCEPT !.pc = "ret", !.now = clock]
           ELSE /\ SetDb(o, 0)
                /\ m_mut' = IF AddOutputResult(o) = 0 THEN 0 ELSE m_mut
                /\ t2' = [t2 EXCEPT !.pc = IF AddOutputResult(o) = 0 THEN "ret"
                                           ELSE "ins_read",
                                    !.now = clock,
                                    !.output_id = AddOutputResult(o)]
    /\ UNCHANGED <<pc, f, m_hdroot, m_hdroot_id, http, srvSpent, clock,
                   crashes, ops, m_db_lock, peer>>

\* ReserveSecret on the second thread, lines 452-517: maxdepth of the
\* change chain is read.
T2InsertRead ==
    /\ t2.pc = "ins_read"
    /\ IF ChainIds(conn, m_hdroot_id, TRUE, ChangeSweep) = {}
       THEN /\ t2' = [t2 EXCEPT !.pc = "ret", !.threw = TRUE]
            /\ m_mut' = 0
       ELSE /\ t2' = [t2 EXCEPT !.pc = "ins_reserve",
                        !.depth = conn.hdchain[MinOf(ChainIds(conn, m_hdroot_id,
                                      TRUE, ChangeSweep))].maxdepth]
            /\ m_mut' = m_mut
    /\ UNCHANGED <<dbvars, bak, pc, f, m_hdroot, m_hdroot_id, http, srvSpent,
                   clock, faults, crashes, ops, m_db_lock, peer>>

\* ReserveSecret on the second thread, lines 519-603: the secret at the
\* depth read is derived and inserted with its hdkey row, maxdepth is
\* incremented; a failed statement throws, which releases the mutex.
T2InsertReserve ==
    /\ t2.pc = "ins_reserve"
    /\ \E failAt \in FailChoices(7) :
          LET sk == DeriveSecret(m_hdroot, TRUE, ChangeSweep, t2.depth)
              s == ExecuteSql(ReserveSql(t2.now, sk, TRUE, ChangeSweep,
                                MinOf(ChainIds(conn, m_hdroot_id, TRUE, ChangeSweep)),
                                t2.depth), failAt)
          IN  /\ SetDb(s, failAt)
              /\ t2' = IF s.ok THEN [t2 EXCEPT !.pc = "ins_replace", !.change = sk]
                       ELSE [t2 EXCEPT !.pc = "ret", !.threw = TRUE]
              /\ m_mut' = IF s.ok THEN m_mut ELSE 0
    /\ UNCHANGED <<bak, pc, f, m_hdroot, m_hdroot_id, http, srvSpent, clock,
                   crashes, ops, m_db_lock, peer>>

\* ReplaceWebcash on the second thread (lines 853-867 and 679-794): the
\* request that spends sk for the change secret is sent; when the server
\* answers 200 the input row is marked spent and the output row of the
\* change secret inserted.  Insert returns and releases the mutex.
T2InsertReplace ==
    /\ t2.pc = "ins_replace"
    /\ m_mut' = 0
    /\ \E status \in {200, 500} :
          IF status = 200 /\ t2.sk \notin srvSpent
          THEN LET u == ExecuteSql(MarkSpentSql([id |-> t2.output_id]), 0)
                   o == RunStmts(u, AddOutputSql(t2.now, SHA256(t2.change), 1,
                                     ReserveResult(t2.change, TRUE, ChangeSweep).id,
                                     FALSE), 1, 0)
               IN  /\ srvSpent' = srvSpent \cup {t2.sk}
                   /\ SetDb(o, 0)
                   /\ t2' = [t2 EXCEPT !.pc = "ret", !.have = AddOutputResult(o) # 0]
          ELSE /\ t2' = [t2 EXCEPT !.pc = "ret"]
               /\ UNCHANGED <<dbvars, faults, srvSpent>>
    /\ UNCHANGED <<bak, pc, f, m_hdroot, m_hdroot_id, http, clock, crashes, ops,
                   m_db_lock, peer>>

NextInserts ==
    \/ Insert
    \/ InsertLog
    \/ InsertSecret
    \/ InsertOutput
    \/ InsertReserve
    \/ ReplaceSubmit
    \/ ServerAccept
    \/ ServerAcceptLost
    \/ ServerReject
    \/ TransportFail
    \/ ReplaceResponse
    \/ ReplaceMarkSpent
    \/ ReplaceAddOutput
    \/ InsertAfterReplace
    \/ InsertReturn
    \/ T2Insert
    \/ T2Lock
    \/ T2InsertAdd
    \/ T2InsertRead
    \/ T2InsertReserve
    \/ T2InsertReplace
    \/ T2Return

SpecInserts == InitLedger /\ [][NextInserts]_vars

(***************************************************************************)
(* SpecTerms: two threads of one process call the operations on the terms  *)
(* table of one constructed Wallet.  AcceptTerms of the first thread is    *)
(* taken in the two steps its two lock_guards make of it (lines 895 and    *)
(* 925), as the one of the second thread is.                               *)
(***************************************************************************)
\* AcceptTerms, line 925: AreTermsAccepted takes the mutex (line 895),
\* runs its SELECT and releases the mutex on its return or its exception.
AcceptTermsCheck ==
    /\ pc = "idle"
    /\ MutexFree(m_mut)
    /\ ops < MaxCalls
    /\ ops' = ops + 1
    /\ \E body \in Bodies, failAt \in FailChoices(1) :
          /\ faults' = IF failAt = 0 THEN faults ELSE faults + 1
          /\ f' = [NoFrame EXCEPT !.known = f.known, !.fn = "AcceptTerms",
                                  !.body = body, !.pre = conn,
                                  !.threw = failAt # 0]
          /\ pc' = IF failAt = 0 /\ ~AreTermsAccepted(conn, body)
                   THEN "terms_lock" ELSE "call_ret"
    /\ UNCHANGED <<dbvars, bak, m_hdroot, m_hdroot_id, http, srvSpent, clock,
                   crashes, m_db_lock, peer, m_mut, t2>>

\* AcceptTerms, lines 926-936: the lock_guard gets the mutex, INSERT OR
\* IGNORE runs, and the end of the block or the exception releases the
\* mutex.
AcceptTermsInsert ==
    /\ pc = "terms_lock"
    /\ MutexFree(m_mut)
    /\ pc' = "call_ret"
    /\ \E t \in clock..MaxTime, failAt \in FailChoices(1) :
          LET s == ExecuteSql(AcceptTermsSql(t, f.body), failAt)
          IN  /\ clock' = t
              /\ SetDb(s, failAt)
              /\ f' = [f EXCEPT !.now = t, !.threw = ~s.ok]
    /\ UNCHANGED <<bak, m_hdroot, m_hdroot_id, http, srvSpent, crashes, ops,
                   m_db_lock, peer, m_mut, t2>>

NextTerms ==
    \/ AcceptTermsCheck
    \/ AcceptTermsInsert
    \/ CallReturn
    \/ T2Call
    \/ T2Lock
    \/ T2Read
    \/ T2Lock2
    \/ T2Write
    \/ T2Return

SpecTerms == InitLedger /\ [][NextTerms]_vars

(***************************************************************************)
(* Properties of ReplaceWebcash.                                           *)
(***************************************************************************)
\* A ReplaceWebcash call is in progress or about to return.
InReplace == pc \in {"rep_wait", "rep_spend", "rep_out", "rep_ret"}

\* The 200 response to the request of the call in progress has arrived.
Got200 == f.sent /\ http.state = "resp" /\ http.status = 200

\* The output rows the call in progress has added to the connection's view.
NewOutputRows == SubSeq(conn.output, Len(f.pre.output) + 1, Len(conn.output))

\* C1: a ReplaceWebcash call whose transport fails or whose response
\* status is not 200 changes nothing: as long as no 200 response has been
\* received the tables are those the call found, every in-memory input
\* still has spent = FALSE, and the call returns the empty list.
C1_NoChangeWithout200 ==
    (InReplace /\ f.sent /\ ~Got200) =>
        /\ conn = f.pre
        /\ \A i \in 1..Len(f.inputs) :
              /\ ~f.inputs[i].spent
              /\ ~conn.output[f.inputs[i].id].spent
        /\ pc \in {"rep_wait", "rep_ret"}
        /\ pc = "rep_ret" => f.ret = <<>>

\* A call returns after the server answered with a status other than 200.
C1_Witness ==
    /\ pc = "rep_ret"
    /\ f.sent
    /\ http.state = "resp"
    /\ http.status # 200
    /\ Len(f.inputs) = 2

RECURSIVE IntSum(_, _)
\* The sum, as an integer, of the amounts of the first k webcash strings.
IntSum(strs, k) == IF k = 0 THEN 0 ELSE IntSum(strs, k - 1) + strs[k].e

\* C2: every replace request sent to the server has
\* sum(inputs.amount) = sum(outputs.amount).
C2_ConservationOnWire ==
    http.state = "req" =>
        IntSum(http.webcashes, Len(http.webcashes))
          = IntSum(http.new_webcashes, Len(http.new_webcashes))

\* C3: a ReplaceWebcash call with an input of amount < 1 returns the empty
\* list, sends no request and changes no row.
C3_InputAmountChecked ==
    (InReplace /\ \E i \in 1..Len(f.inputs) : f.inputs[i].amount < 1) =>
        /\ ~f.sent
        /\ pc = "rep_ret"
        /\ f.ret = <<>>
        /\ conn = f.pre

\* The sum, as an integer, of a sequence of amounts.
TrueSum(amounts) ==
    IntSum([i \in 1..Len(amounts) |-> [e |-> amounts[i]]], Len(amounts))

\* One of the precondition violations C4 lists holds of the arguments.
C4_Violation ==
    \/ f.inputs = <<>>
    \/ \E i \in 1..Len(f.inputs) : f.inputs[i].secret = <<>>
    \/ \E i \in 1..Len(f.inputs) : f.pre.output[f.inputs[i].id].spent
    \/ f.outputs = <<>>
    \/ \E i \in 1..Len(f.outputs) : f.outputs[i][2] < 1
    \/ TrueSum(InputAmounts(f.inputs)) # TrueSum(OutputAmounts(f.outputs))

\* C4: a ReplaceWebcash call with an empty input set, an input without a
\* known secret, a spent input, an empty output set, an output of amount
\* < 1 or unequal sums returns the empty list, sends no request and
\* leaves every row and every in-memory spent flag as it was.
C4_PreconditionsChecked ==
    (InReplace /\ C4_Violation) =>
        /\ ~f.sent
        /\ pc = "rep_ret"
        /\ f.ret = <<>>
        /\ conn = f.pre
        /\ \A i \in 1..Len(f.inputs) :
              f.inputs[i].spent = f.pre.output[f.inputs[i].id].spent

\* C5: after a 200 response and a commit phase in which no statement
\* failed, every input row is spent, there is exactly one new unspent
\* output row per requested output, and the returned list pairs, in request
\* order, each reserved secret with the id of its new row.
C5_CommitOn200 ==
    (pc = "rep_ret" /\ Got200 /\ ~f.failed) =>
        /\ \A i \in 1..Len(f.inputs) : conn.output[f.inputs[i].id].spent
        /\ Len(NewOutputRows) = Len(f.outputs)
        /\ \A k \in 1..Len(f.outputs) :
              /\ NewOutputRows[k].hash = SHA256(f.outputs[k][1].secret)
              /\ NewOutputRows[k].amount = f.outputs[k][2]
              /\ ~NewOutputRows[k].spent
        /\ f.ret = [k \in 1..Len(f.outputs) |->
                       <<f.outputs[k][1], Len(f.pre.output) + k>>]
        /\ SubSeq(conn.output, 1, Len(f.pre.output))
             = [i \in 1..Len(f.pre.output) |->
                  IF \E j \in 1..Len(f.inputs) : f.inputs[j].id = i
                  THEN [f.pre.output[i] EXCEPT !.spent = TRUE]
                  ELSE f.pre.output[i]]

\* A call with two inputs and two outputs returns after a 200 response and
\* a commit phase without a failed statement.
C5_Witness ==
    /\ pc = "rep_ret"
    /\ Got200
    /\ ~f.failed
    /\ Len(f.inputs) = 2
    /\ Len(f.ret) = 2

\* The server has consumed the inputs of the call.
ServerConsumed ==
    /\ f.inputs # <<>>
    /\ \A i \in 1..Len(f.inputs) :
          /\ f.inputs[i].secret # <<>>
          /\ f.inputs[i].secret[1].secret \in srvSpent

\* The server has consumed no input of the call.
ServerUntouched ==
    \A i \in 1..Len(f.inputs) :
        f.inputs[i].secret # <<>> => f.inputs[i].secret[1].secret \notin srvSpent

\* The wallet has the inputs spent and the new outputs recorded.
WalletCommitted ==
    /\ \A i \in 1..Len(f.inputs) : conn.output[f.inputs[i].id].spent
    /\ Len(NewOutputRows) = Len(f.outputs)
    /\ \A k \in 1..Len(f.outputs) :
          NewOutputRows[k].hash = SHA256(f.outputs[k][1].secret)

\* The wallet has the inputs as they were and no new output rows.
WalletUntouched == conn = f.pre

AnswerLost == f.sent /\ http.state = "err" /\ http.accepted

C6_ReservedSecretIdBound ==
    (f.fn = "Insert" /\ pc \in {"rep_out", "rep_ret"}) =>
        \A k \in 1..Len(NewOutputRows) :
            \E id \in SecretIds(conn, f.outputs[k][1].secret) :
                /\ f.outputs[k][1].id = id
                /\ NewOutputRows[k].secret_id = SqlInteger(id)

\* The recovery log has a line naming secret sk, written at or before
\* time ts.
LoggedBy(sk, ts) ==
    \E i \in 1..Len(bak) :
        /\ bak[i].event # "hdroot"
        /\ bak[i].payload.secret = sk
        /\ bak[i].timestamp <= ts

\* C8: when the replace request of an Insert is on its way to the server,
\* the derived change secret it names is already in the recovery log, so
\* a crash right after the server accepted leaves the secret recoverable
\* from the log.
C8_ChangeSecretLoggedBeforeRequest ==
    (f.fn = "Insert" /\ pc = "rep_wait" /\ http.state = "req") =>
        \A k \in 1..Len(f.outputs) : LoggedBy(f.outputs[k][1].secret, MaxTime)

\* C9: every row of the secret table, whether AddSecretToWallet or
\* ReserveSecret inserted it, has a line naming its secret in the recovery
\* log, stamped no later than the row.
C9_EverySecretRowLogged ==
    /\ \A i \in 1..Len(conn.secret) :
          LoggedBy(conn.secret[i].secret, conn.secret[i].timestamp)
    /\ \A i \in 1..Len(disk.secret) :
          LoggedBy(disk.secret[i].secret, disk.secret[i].timestamp)

\* The recovery log has an hdroot line with the hex of root and version 1.
RootLogged(root) ==
    \E i \in 1..Len(bak) :
        /\ bak[i].event = "hdroot"
        /\ bak[i].payload = [hex |-> BytesToHexString(root), version |-> 1]

\* The hdroot lines of the recovery log.
RootLines == {i \in 1..Len(bak) : bak[i].event = "hdroot"}

\* C10: the hdroot line is in the recovery log before the root row is
\* inserted: every hdroot row, committed or not, has its line with the
\* root's hex and version 1, the insert is only attempted with the line
\* written, and every hdchain row belongs to an hdroot row, so a
\* constructor that could not open the log has inserted neither.
C10_RootLoggedBeforeInsert ==
    /\ \A i \in 1..Len(conn.hdroot) :
          /\ conn.hdroot[i].version = 1
          /\ RootLogged(conn.hdroot[i].secret)
    /\ \A i \in 1..Len(disk.hdroot) :
          /\ disk.hdroot[i].version = 1
          /\ RootLogged(disk.hdroot[i].secret)
    /\ pc = "root_db" => RootLogged(m_hdroot)
    /\ \A i \in 1..Len(conn.hdchain) :
          conn.hdchain[i].hdroot_id \in 1..Len(conn.hdroot)
    /\ \A i \in 1..Len(disk.hdchain) :
          disk.hdchain[i].hdroot_id \in 1..Len(disk.hdroot)
    /\ (pc = "closed" /\ RootLines = {}) =>
          (Len(disk.hdroot) = 0 /\ Len(disk.hdchain) = 0)

\* A wallet whose first construction died between the log line and the
\* insert has been constructed again: the committed root is in the log
\* behind the line of the root that was never inserted.
C10_Witness ==
    /\ pc = "idle"
    /\ Len(disk.hdroot) = 1
    /\ Len(disk.hdchain) = 4
    /\ Cardinality(RootLines) = 2
    /\ RootLogged(disk.hdroot[1].secret)

\* The chains of db that belong to root row 1 at chaincode 0 with the
\* given flags.
ChainsOf(db, mine, sweep) ==
    {i \in 1..Len(db.hdchain) :
        /\ db.hdchain[i].hdroot_id = 1
        /\ db.hdchain[i].chaincode = 0
        /\ db.hdchain[i].mine = mine
        /\ db.hdchain[i].sweep = sweep}

\* db has at most one root, and with a root exactly its four chains.
OneRootFourChains(db) ==
    /\ Len(db.hdroot) <= 1
    /\ Len(db.hdroot) = 0 => Len(db.hdchain) = 0
    /\ Len(db.hdroot) = 1 =>
          /\ Len(db.hdchain) = 4
          /\ \A mine \in BOOLEAN, sweep \in BOOLEAN :
                Cardinality(ChainsOf(db, mine, sweep)) = 1

\* The step that gives db its root gives it chains of depth 0 only.
ChainsCreatedEmpty(db, dbn) ==
    (Len(db.hdroot) = 0 /\ Len(dbn.hdroot) = 1) =>
        \A i \in 1..Len(dbn.hdchain) :
            dbn.hdchain[i].mindepth = 0 /\ dbn.hdchain[i].maxdepth = 0

\* C11: whatever opens, closes and crashes happened, the hdroot table has
\* at most one row, and with a row there are exactly four hdchain rows of
\* that root at chaincode 0, one per (mine, sweep) pair, each created with
\* mindepth = maxdepth = 0.
C11_OneRootFourChains ==
    /\ [](OneRootFourChains(disk) /\ OneRootFourChains(conn))
    /\ [][ChainsCreatedEmpty(disk, disk') /\ ChainsCreatedEmpty(conn, conn')]_vars

\* A wallet with its root and chains is open again after a crash and a
\* full run of operations.
C11_Witness ==
    /\ pc = "idle"
    /\ crashes = MaxCrashes
    /\ ops = MaxOps
    /\ Len(disk.hdroot) = 1
    /\ Len(disk.hdchain) = 4

(***************************************************************************)
(* Properties of the key chains and of the secret table, under SpecLedger. *)
(***************************************************************************)
\* A direct call of fn has just ended without an exception.
Returned(fn) == pc' = "call_ret" /\ pc # "call_ret" /\ f'.fn = fn /\ ~f'.threw

\* From db to dbn the chain of the returned ReserveSecret call is one
\* deeper and every other chain as deep as before.
AdvancedByOne(db, dbn) ==
    /\ Len(dbn.hdchain) = Len(db.hdchain)
    /\ \A i \in 1..Len(db.hdchain) :
          dbn.hdchain[i].maxdepth =
              IF i \in ChainsOf(db, f'.mine, f'.sweep)
              THEN db.hdchain[i].maxdepth + 1
              ELSE db.hdchain[i].maxdepth

\* No chain of db is missing or less deep in dbn.
NotShallower(db, dbn) ==
    /\ Len(dbn.hdchain) >= Len(db.hdchain)
    /\ \A i \in 1..Len(db.hdchain) :
          dbn.hdchain[i].maxdepth >= db.hdchain[i].maxdepth

\* mindepth <= maxdepth on every chain of db.
DepthsOrdered(db) ==
    \A i \in 1..Len(db.hdchain) :
        db.hdchain[i].mindepth <= db.hdchain[i].maxdepth

\* C12: a successful ReserveSecret(mine, sweep) makes the chain (0, mine,
\* sweep) exactly one deeper and leaves the other three as they were, in
\* the committed tables and in the connection's view; no step makes a
\* committed maxdepth smaller, nor one the open connection sees; and
\* mindepth <= maxdepth always.
C12_MaxdepthAdvances ==
    /\ [](DepthsOrdered(disk) /\ DepthsOrdered(conn))
    /\ [][/\ Returned("ReserveSecret") =>
                (AdvancedByOne(disk, disk') /\ AdvancedByOne(conn, conn'))
          /\ NotShallower(disk, disk')
          /\ pc' # "closed" => NotShallower(conn, conn')]_vars

\* A second successful ReserveSecret on one chain has returned.
C12_Witness ==
    /\ pc = "call_ret"
    /\ f.fn = "ReserveSecret"
    /\ ~f.threw
    /\ disk.hdchain[f.hdchain_id].maxdepth = 2
    /\ f.pre.hdchain[f.hdchain_id].maxdepth = 1

\* The hdkey rows of chain i in db.
KeysOf(db, i) == {k \in 1..Len(db.hdkey) : db.hdkey[k].hdchain_id = i}

\* In db every chain of depth n has hdkey rows at exactly the depths
\* 0..n-1, one each, the row at depth d linked to the secret row holding
\* the secret derived at depth d, and no two hdkey rows share a secret row.
ChainsLinked(db) ==
    /\ \A i \in 1..Len(db.hdchain) :
          /\ Cardinality(KeysOf(db, i)) = db.hdchain[i].maxdepth
          /\ {db.hdkey[k].depth : k \in KeysOf(db, i)} =
                 0..(db.hdchain[i].maxdepth - 1)
          /\ \A k \in KeysOf(db, i) :
                /\ db.hdkey[k].secret_id \in 1..Len(db.secret)
                /\ db.secret[db.hdkey[k].secret_id].secret =
                      DeriveSecret(1, db.hdchain[i].mine, db.hdchain[i].sweep,
                                   db.hdkey[k].depth)
    /\ \A k \in 1..Len(db.hdkey) : db.hdkey[k].hdchain_id \in 1..Len(db.hdchain)
    /\ \A k1 \in 1..Len(db.hdkey), k2 \in 1..Len(db.hdkey) :
          k1 # k2 =>
             /\ db.hdkey[k1].secret_id # db.hdkey[k2].secret_id
             /\ db.secret[db.hdkey[k1].secret_id].secret #
                   db.secret[db.hdkey[k2].secret_id].secret

\* C13: after n successful ReserveSecret calls on a chain of a fresh
\* wallet the chain's maxdepth is n, it has hdkey rows at exactly the
\* depths 0..n-1, each linked to a different secret row, and the call that
\* made the chain n deep returned the secret derived at depth n-1, which
\* differs from those of the calls before it.
C13_ReserveThenAdvance ==
    /\ ChainsLinked(disk)
    /\ (pc = "call_ret" /\ f.fn = "ReserveSecret" /\ ~f.threw) =>
          /\ ChainsLinked(conn)
          /\ f.depth = f.pre.hdchain[f.hdchain_id].maxdepth
          /\ conn.hdchain[f.hdchain_id].maxdepth = f.depth + 1
          /\ f.ret[1].secret = DeriveSecret(1, f.mine, f.sweep, f.depth)
          /\ \A k \in KeysOf(f.pre, f.hdchain_id) :
                f.pre.secret[f.pre.hdkey[k].secret_id].secret # f.ret[1].secret

\* The third successful ReserveSecret on one chain has returned.
C13_Witness ==
    /\ pc = "call_ret"
    /\ f.fn = "ReserveSecret"
    /\ ~f.threw
    /\ f.depth = 2
    /\ disk.hdchain[f.hdchain_id].maxdepth = 3
    /\ Cardinality(KeysOf(disk, f.hdchain_id)) = 3

\* A direct ReserveSecret call that found its chain has just ended, by
\* returning or by throwing.
ReserveEnded ==
    /\ pc' = "call_ret"
    /\ pc # "call_ret"
    /\ f'.fn = "ReserveSecret"
    /\ f'.hdchain_id # 0

\* From db to dbn the three effects of the ended ReserveSecret call have
\* all taken place: the secret row is there with its flags merged, a new
\* hdkey row links it at the depth of the call, and the chain is one
\* deeper.
AllThreeEffects(db, dbn) ==
    /\ \E id \in SecretIds(dbn, f'.sk) :
          /\ dbn.secret[id].mine =
                (f'.mine /\ \A j \in SecretIds(db, f'.sk) : db.secret[j].mine)
          /\ dbn.secret[id].sweep =
                (f'.sweep \/ \E j \in SecretIds(db, f'.sk) : db.secret[j].sweep)
          /\ Len(dbn.hdkey) = Len(db.hdkey) + 1
          /\ dbn.hdkey[Len(dbn.hdkey)] =
                [hdchain_id |-> f'.hdchain_id, depth |-> f'.depth,
                 secret_id |-> id]
    /\ dbn.hdchain[f'.hdchain_id].maxdepth =
          db.hdchain[f'.hdchain_id].maxdepth + 1

SecretWritten ==
    /\ pc' = "call_ret"
    /\ pc # "call_ret"
    /\ \/ f'.fn = "AddSecretToWallet" /\ ~f'.failed
       \/ f'.fn = "ReserveSecret" /\ ~f'.threw

\* From db to dbn the secret of the ended call was inserted with the
\* incoming flags, or, being there already, had them merged into its row:
\* mine := mine AND incoming, sweep := sweep OR incoming.
MergedInto(db, dbn) ==
    IF SecretIds(db, f'.sk) = {}
    THEN /\ Len(dbn.secret) = Len(db.secret) + 1
         /\ dbn.secret[Len(dbn.secret)].secret = f'.sk
         /\ dbn.secret[Len(dbn.secret)].mine = f'.mine
         /\ dbn.secret[Len(dbn.secret)].sweep = f'.sweep
    ELSE /\ Len(dbn.secret) = Len(db.secret)
         /\ \A i \in SecretIds(db, f'.sk) :
               /\ dbn.secret[i].secret = f'.sk
               /\ dbn.secret[i].mine = (db.secret[i].mine /\ f'.mine)
               /\ dbn.secret[i].sweep = (db.secret[i].sweep \/ f'.sweep)

\* From db to dbn no secret row vanished or changed its secret, no mine
\* flag went from FALSE to TRUE and no sweep flag from TRUE to FALSE.
FlagsMonotone(db, dbn) ==
    /\ Len(dbn.secret) >= Len(db.secret)
    /\ \A i \in 1..Len(db.secret) :
          /\ dbn.secret[i].secret = db.secret[i].secret
          /\ dbn.secret[i].mine => db.secret[i].mine
          /\ db.secret[i].sweep => dbn.secret[i].sweep

\* No two rows of the secret table of db hold the same secret.
SecretsUnique(db) ==
    \A i \in 1..Len(db.secret), j \in 1..Len(db.secret) :
        db.secret[i].secret = db.secret[j].secret => i = j

\* C15: inserting a secret that is already in the secret table, through
\* AddSecretToWallet or ReserveSecret, sets mine := mine_old AND
\* mine_incoming and sweep := sweep_old OR sweep_incoming and creates no
\* second row; so no step turns a mine flag from false to true or a sweep
\* flag from true to false.
C15_MergeRule ==
    /\ [](SecretsUnique(disk) /\ SecretsUnique(conn))
    /\ [][/\ SecretWritten => (MergedInto(disk, disk') /\ MergedInto(conn, conn'))
          /\ FlagsMonotone(disk, disk')
          /\ pc' # "closed" => FlagsMonotone(conn, conn')]_vars

\* AddSecretToWallet has merged flags into a row that had mine = TRUE and
\* sweep = FALSE: both flags changed.
C15_Witness ==
    /\ pc = "call_ret"
    /\ f.fn = "AddSecretToWallet"
    /\ ~f.failed
    /\ ~f.mine
    /\ f.sweep
    /\ \E i \in SecretIds(f.pre, f.sk) :
          /\ f.pre.secret[i].mine
          /\ ~f.pre.secret[i].sweep
          /\ ~disk.secret[i].mine
          /\ disk.secret[i].sweep

\* C16: an AddSecretToWallet call with an sk for which an earlier call
\* returned an id returns that id again, the id of the secret row holding
\* sk, whatever calls ran in between.
C16_SameIdOnSecondCall ==
    (pc = "call_ret" /\ f.fn = "AddSecretToWallet" /\ ~f.failed /\ f.logok) =>
        \A p \in f.known :
            p[1] = f.sk => (f.secret_id = p[2] /\ p[2] \in SecretIds(conn, f.sk))

\* C17: AddSecretToWallet returns zero only when the database write
\* failed: a call whose transaction succeeded returns a non-zero id, also
\* when the recovery-log write before it failed.
C17_ZeroOnlyOnDbFailure ==
    (pc = "call_ret" /\ f.fn = "AddSecretToWallet" /\ ~f.failed) =>
        f.secret_id # 0

\* The row of the secret of the call in progress is in db with the flags
\* of the call merged into those it had in the tables the call found.
RowMerged(db) ==
    /\ SecretIds(db, f.sk) # {}
    /\ \A i \in SecretIds(db, f.sk) :
          /\ db.secret[i].mine =
                (f.mine /\ \A j \in SecretIds(f.pre, f.sk) : f.pre.secret[j].mine)
          /\ db.secret[i].sweep =
                (f.sweep \/ \E j \in SecretIds(f.pre, f.sk) : f.pre.secret[j].sweep)

\* C18: when the recovery-log append of AddSecretToWallet fails the
\* database insert is still attempted: the call does not end before it,
\* and if no statement of it fails the secret row is there after the
\* call, with the flags merged.
C18_InsertDespiteLogFailure ==
    /\ (f.fn = "AddSecretToWallet" /\ pc = "call_ret" /\ ~f.logok /\ ~f.failed) =>
          (RowMerged(conn) /\ RowMerged(disk))
    /\ (f.fn = "AddSecretToWallet" /\ pc = "call_ret" /\ ~f.logok /\ f.failed) =>
          (inTx \/ faults > 0)

\* A call whose log append failed has committed the row of a secret the
\* table did not hold.
C18_Witness ==
    /\ pc = "call_ret"
    /\ f.fn = "AddSecretToWallet"
    /\ ~f.logok
    /\ ~f.failed
    /\ SecretIds(f.pre, f.sk) = {}
    /\ SecretIds(disk, f.sk) # {}

(***************************************************************************)
(* Properties of the file lock, under SpecProcs.                           *)
(***************************************************************************)
\* C19: while one process holds the wallet open, an attempt of a second
\* process to open the same path fails at construction with the
\* lock-contention error and changes neither P.db nor P.bak; at most one
\* process has the wallet open at any time.
C19_SecondProcessRefused ==
    /\ [](~(pc # "closed" /\ peer = "open"))
    /\ [][(pc # "closed" /\ peer = "closed" /\ peer' # "closed") =>
             (peer' = "failed" /\ disk' = disk /\ bak' = bak /\ pc' = pc)]_vars

\* The second process was refused while the first was between writing the
\* line of its new root and inserting it.
C19_Witness ==
    /\ peer = "failed"
    /\ pc = "root_db"
    /\ Len(disk.hdroot) = 0
    /\ m_db_lock = 1

(***************************************************************************)
(* Properties of the wallet mutex, under SpecThreads.                      *)
(***************************************************************************)
\* The first thread is inside Insert.
InInsert == pc \notin {"idle", "closed"} /\ f.fn = "Insert"

\* The second thread is inside the locked part of a terms operation.
InTerms == t2.pc \in {"read", "write"}

\* C20: Insert, HaveAcceptedTerms, AreTermsAccepted and AcceptTerms
\* serialise on one mutex: no two of them are at the database together,
\* the mutex stays held while Insert waits for the server's reply, and
\* during an Insert another operation gets no further than calling and
\* waiting for the mutex (or handing back a result it already had).
C20_OperationsSerialise ==
    /\ [](~(InInsert /\ InTerms))
    /\ [](InInsert => m_mut = 1)
    /\ [](InTerms => m_mut = 2)
    /\ [][InInsert =>
             \/ t2' = t2
             \/ t2.pc = "idle" /\ t2'.pc = "lock"
             \/ t2.pc = "ret" /\ t2'.pc = "idle"]_vars

\* An Insert waits for the server's reply with the mutex held while a
\* terms operation of the other thread waits for the mutex.
C20_Witness ==
    /\ pc = "rep_wait"
    /\ f.fn = "Insert"
    /\ http.state = "req"
    /\ m_mut = 1
    /\ t2.pc \in {"lock", "lock2"}

(***************************************************************************)
(* Properties of the output table.                                         *)
(***************************************************************************)
\* From the output table a to the output table b no row is gone, no row
\* changed its hash or amount, and no spent row became unspent.
SpentOnlyRises(a, b) ==
    /\ Len(b) >= Len(a)
    /\ \A i \in 1..Len(a) :
          /\ b[i].hash = a[i].hash
          /\ b[i].amount = a[i].amount
          /\ a[i].spent => b[i].spent

\* C21: the spent flag of an output row only changes from false to true
\* and no output row is deleted, in the committed table at every step and
\* in the table the connection sees at every step that keeps it open.
C21_SpentMonotone ==
    [][/\ SpentOnlyRises(disk.output, disk'.output)
       /\ pc' # "closed" => SpentOnlyRises(conn.output, conn'.output)]_vars

\* One output row was named twice among the inputs, both UPDATEs ran, and
\* the row is spent.
C21_Witness ==
    /\ pc = "rep_out"
    /\ Len(f.inputs) = 2
    /\ f.inputs[1].id = f.inputs[2].id
    /\ ~f.failed
    /\ disk.output[f.inputs[1].id].spent
    /\ ~f.pre.output[f.inputs[1].id].spent

(***************************************************************************)
(* Properties of the terms table, under SpecLedger.                        *)
(***************************************************************************)
\* The rows of the terms table of db with this body.
TermsRows(db, body) == {i \in 1..Len(db.terms) : db.terms[i].body = body}

\* AcceptTerms has returned without an exception.
Accepted == pc = "call_ret" /\ f.fn = "AcceptTerms" /\ ~f.threw

\* C22: after AcceptTerms(body) returned, the terms table holds exactly
\* one row with that body and both queries answer true; a call on an
\* accepted body changes no row; and a body once accepted stays accepted
\* at every later step in which the process does not die, the wallet
\* closed and opened again included (terms rows are never removed).
C22_AcceptTermsIdempotent ==
    /\ [](Accepted =>
            \A body \in Bodies :
               /\ Cardinality(TermsRows(conn, body)) = 1
               /\ AreTermsAccepted(conn, body)
               /\ HaveAcceptedTerms(conn)
               /\ AreTermsAccepted(f.pre, body) => conn.terms = f.pre.terms)
    /\ [][crashes' = crashes =>
             \A body \in Bodies :
                AreTermsAccepted(conn, body) =>
                    (AreTermsAccepted(conn', body) /\ HaveAcceptedTerms(conn'))]_vars

(***************************************************************************)
(* Properties of the category encoding, under SpecLedger.                  *)
(***************************************************************************)
\* The table of the four categories: bits, enumerator and event name.
CategoryTable(mine, sweep) ==
    IF ~mine /\ sweep THEN [bits |-> 0, type |-> "RECEIVE", event |-> "recieve"]
    ELSE IF ~mine /\ ~sweep THEN [bits |-> 1, type |-> "PAYMENT", event |-> "pay"]
    ELSE IF mine /\ ~sweep THEN [bits |-> 2, type |-> "CHANGE", event |-> "change"]
    ELSE [bits |-> 3, type |-> "MINING", event |-> "mining"]

\* ReserveSecret derived a secret for the pair (f.mine, f.sweep).
Derived == pc = "call_ret" /\ f.fn = "ReserveSecret" /\ f.sk # <<>>

\* AddSecretToWallet wrote the line of (f.mine, f.sweep) to the log.
LineWritten ==
    pc \in {"add_db", "call_ret"} /\ f.fn = "AddSecretToWallet" /\ f.logok

TransportFailed ==
    pc = "ins_ret" /\ f.fn = "Insert" /\ f.sent /\ http.state = "err"

\* The change secret Insert reserved.
Change == f.outputs[1][1].secret

\* The chains of the open root that are not the (TRUE, TRUE) chain.
OtherChains(db) ==
    {i \in 1..Len(db.hdchain) : ~(db.hdchain[i].mine /\ db.hdchain[i].sweep)}

\* C24: when Insert(sk) fails by a transport error, the output row of sk
\* is there and unspent, the change secret has no output row, the change
\* secret and its hdkey row are in the (TRUE, TRUE) chain whose maxdepth is
\* one above the depth of the change secret, all of it committed; no step
\* of an Insert changes another chain; and the change secret an Insert
\* reserves is at the maxdepth it read and was not in the secret table.
C24_TransportFailureKeepsChange ==
    /\ [](TransportFailed =>
            /\ ~inTx /\ conn = disk
            /\ f.output_id \in 1..Len(disk.output)
            /\ disk.output[f.output_id].hash = SHA256(f.sk)
            /\ ~disk.output[f.output_id].spent
            /\ \A i \in 1..Len(disk.output) : disk.output[i].hash # SHA256(Change)
            /\ SecretIds(disk, Change) # {}
            /\ \E c \in ChainIds(disk, m_hdroot_id, TRUE, TRUE) :
                  /\ disk.hdchain[c].maxdepth = Change[3] + 1
                  /\ \E k \in 1..Len(disk.hdkey) :
                        /\ disk.hdkey[k].secret_id \in SecretIds(disk, Change)
                        /\ disk.hdkey[k].hdchain_id = c
                        /\ disk.hdkey[k].depth = Change[3])
    /\ [][(f.fn = "Insert" /\ pc' # "closed") =>
             \A i \in OtherChains(conn) : conn'.hdchain[i] = conn.hdchain[i]]_vars
    /\ [][(pc = "ins_reserve" /\ pc' = "rep_entry") =>
             /\ SecretIds(conn, Change') = {}
             /\ \E c \in ChainIds(conn, m_hdroot_id, TRUE, TRUE) :
                   /\ Change'[3] = conn.hdchain[c].maxdepth
                   /\ conn'.hdchain[c].maxdepth = conn.hdchain[c].maxdepth + 1]_vars

\* A second Insert failed by a transport error after a first one had, and
\* its change secret lies one depth above the first one's.
C24_Witness ==
    /\ TransportFailed
    /\ Change[3] = 1
    /\ SecretIds(disk, DeriveSecret(m_hdroot, TRUE, TRUE, 0)) # {}
    /\ Cardinality({i \in 1..Len(disk.output) : ~disk.output[i].spent}) = 2

(***************************************************************************)
(* Properties of the commit phase of ReplaceWebcash, under SpecReplace.    *)
(***************************************************************************)
\* The rounds of the input loop whose row is not spent.
UnspentInputs ==
    {k \in 1..Len(f.inputs) : ~conn.output[f.inputs[k].id].spent}

\* The place of a returned secret among the outputs of the request.
PlaceOf(secret) ==
    CHOOSE i \in 1..Len(f.outputs) : f.outputs[i][1].secret = secret

\* C25: after a 200 response a failed spent-update does not end the
\* commit phase: every round of both loops runs, every UPDATE that did not
\* fail marks its row, every INSERT that did not fail adds its row, and
\* the returned list holds exactly the outputs whose INSERT succeeded, in
\* request order, each with the id of its new row.
C25_CommitPhaseContinues ==
    /\ []((pc = "rep_ret" /\ Got200) =>
            /\ Cardinality(UnspentInputs) <= faults
            /\ Len(f.ret) = Len(NewOutputRows)
            /\ Len(f.ret) >= Len(f.outputs) - faults
            /\ \A j \in 1..Len(f.ret) :
                  /\ f.ret[j][2] = Len(f.pre.output) + j
                  /\ conn.output[f.ret[j][2]].hash = SHA256(f.ret[j][1].secret)
                  /\ \E i \in 1..Len(f.outputs) : f.outputs[i][1] = f.ret[j][1]
            /\ \A j1, j2 \in 1..Len(f.ret) :
                  j1 < j2 => PlaceOf(f.ret[j1][1].secret) < PlaceOf(f.ret[j2][1].secret))
    /\ [][pc = "rep_spend" =>
             /\ pc' = IF f.k < Len(f.inputs) THEN "rep_spend" ELSE "rep_out"
             /\ faults' = faults => conn'.output[f.inputs[f.k].id].spent]_vars
    /\ [][pc = "rep_out" =>
             /\ pc' = IF f.k < Len(f.outputs) THEN "rep_out" ELSE "rep_ret"
             /\ IF faults' = faults
                THEN /\ Len(conn'.output) = Len(conn.output) + 1
                     /\ f'.ret = Append(f.ret, <<f.outputs[f.k][1], Len(conn'.output)>>)
                ELSE /\ conn'.output = conn.output
                     /\ f'.ret = f.ret]_vars

\* The UPDATE of the first of two inputs failed and the second input was
\* still marked spent and all three outputs were inserted and returned.
C25_Witness ==
    /\ pc = "rep_ret"
    /\ Got200
    /\ Len(f.inputs) = 2
    /\ UnspentInputs = {1}
    /\ Len(f.outputs) = 3
    /\ Len(f.ret) = 3
    /\ conn.output[f.inputs[2].id].spent

(***************************************************************************)
(* Properties of the destructor, under SpecClose.                          *)
(***************************************************************************)
\* The second thread has begun the body of an operation and not ended it.
Begun == t2.pc \in {"read", "lock2", "write"}

\* C26: the destructor runs only when no operation another thread has
\* begun is unfinished; the closed wallet has no connection, holds no file
\* lock and no root, so that another process can open the path.
C26_CloseWaits ==
    /\ [](pc = "closed" =>
            /\ m_db_lock # 1
            /\ m_hdroot = 0
            /\ ~inTx
            /\ (peer = "closed" => conn = disk))
    /\ [][(pc # "closed" /\ pc' = "closed") => ~Begun]_vars

\* The output rows of db with the hash of sk.
RowsOf(db, sk) == {i \in 1..Len(db.output) : db.output[i].hash = SHA256(sk)}

\* Insert is about to return true, no database statement has failed, and
\* every row with the hash of sk is of the amount of this Insert.
InsertSucceeded ==
    /\ pc = "ins_ret"
    /\ f.fn = "Insert"
    /\ f.result
    /\ faults = 0
    /\ \A i \in RowsOf(conn, f.sk) : conn.output[i].amount = f.amount

\* C27: after Insert(sk) returned true, no output row with the hash of sk
\* is unspent, also when an earlier Insert of the same webcash failed at
\* the server or the transport and left its row behind.
C27_NoUnspentAfterInsert ==
    InsertSucceeded => \A i \in RowsOf(conn, f.sk) : conn.output[i].spent

\* The output row i of db names a secret row and that row holds the
\* secret whose hash the output row carries.
ReferencesItsSecret(db, i) ==
    LET sid == db.output[i].secret_id[1]
    IN  /\ sid \in 1..Len(db.secret)
        /\ SHA256(db.secret[sid].secret) = db.output[i].hash

\* Insert has created its output row.
InsertedOutput ==
    /\ f.fn = "Insert"
    /\ pc \in {"ins_reserve", "rep_entry", "rep_wait", "rep_spend", "rep_out",
               "rep_ret", "ins_ret"}
    /\ f.output_id # 0

\* C28: every output row with a non-null secret_id references an existing
\* secret row whose secret hashes to the hash of the output row, and the
\* output row Insert(sk) creates references the secret row of sk.
C28_OutputReferencesSecret ==
    /\ \A i \in 1..Len(conn.output) :
          conn.output[i].secret_id # SqlNull => ReferencesItsSecret(conn, i)
    /\ InsertedOutput =>
          /\ conn.output[f.output_id].secret_id # SqlNull
          /\ conn.output[f.output_id].secret_id[1] \in SecretIds(conn, f.sk)

(***************************************************************************)
(* Properties of ExecuteSql, under SpecLedger.                             *)
(***************************************************************************)
\* ReserveSecret or AddSecretToWallet is returning after its ExecuteSql
\* call failed.
TransactionFailed ==
    /\ pc = "call_ret"
    /\ \/ f.fn = "ReserveSecret" /\ f.threw /\ f.sk # <<>>
       \/ f.fn = "AddSecretToWallet" /\ f.failed

\* C29: after a failed multi-statement ExecuteSql the connection is not
\* inside a transaction and shows the tables as they were before the
\* call, and a later AcceptTerms that returns without an exception has
\* committed its row.
C29_NoOpenTransactionAfterFailure ==
    /\ TransactionFailed => (~inTx /\ conn = f.pre)
    /\ Accepted => \A body \in Bodies : AreTermsAccepted(disk, body)

\* maxdepth of the chain Insert takes its change secrets from.
ChangeDepth(db) ==
    db.hdchain[MinOf(ChainIds(db, m_hdroot_id, TRUE, ChangeSweep))].maxdepth

\* The Insert of the first thread has reserved its change secret and has
\* not returned.
Reserved1 == f.fn = "Insert" /\ f.outputs # <<>>

\* The Insert of the second thread has reserved its change secret and has
\* not returned.
Reserved2 == t2.fn = "Insert" /\ t2.change # <<>>

\* Some row of the secret table holds sk.
IsReserved(db, sk) == \E i \in 1..Len(db.secret) : db.secret[i].secret = sk

\* C30: two Inserts running on two threads of one Wallet read different
\* maxdepth values of the change chain and derive different change
\* secrets, and maxdepth is two above the lower of the depths they read;
\* whichever thread reserves, its change secret was in no row of the
\* secret table before and maxdepth rises by exactly one.
C30_ConcurrentInsertsDistinctChange ==
    /\ [](Reserved1 /\ Reserved2 =>
            /\ f.outputs[1][1].secret # t2.change
            /\ f.outputs[1][1].secret[3] # t2.depth
            /\ t2.change[3] = t2.depth
            /\ ChangeDepth(conn) = 2 +
                 (IF t2.depth < f.outputs[1][1].secret[3] THEN t2.depth
                  ELSE f.outputs[1][1].secret[3]))
    /\ [][~Reserved1 /\ Reserved1' =>
            /\ ~IsReserved(conn, f'.outputs[1][1].secret)
            /\ ChangeDepth(conn') = ChangeDepth(conn) + 1]_vars
    /\ [][~Reserved2 /\ Reserved2' =>
            /\ ~IsReserved(conn, t2'.change)
            /\ ChangeDepth(conn') = ChangeDepth(conn) + 1]_vars

\* Two calls were made, one on each thread; both have reserved, neither
\* has returned, and maxdepth is two above its value after construction.
C30_Witness ==
    /\ ops = 2
    /\ Reserved1
    /\ Reserved2
    /\ ChangeDepth(conn) = ChangeDepth(Constructed.conn) + 2

\* AcceptTerms was called on both threads with the same body, and both
\* calls have come to their end without having returned yet.
BothAccepted ==
    /\ pc = "call_ret"
    /\ f.fn = "AcceptTerms"
    /\ t2.pc = "ret"
    /\ t2.fn = "AcceptTerms"
    /\ f.body = t2.body

\* C31: when two threads call AcceptTerms concurrently with the same
\* body, the terms table never holds two rows for that body; and when no
\* statement of sqlite failed, neither call throws and the table, in the
\* connection and on disk, holds exactly one row for the body.
C31_ConcurrentAcceptTermsOneRow ==
    /\ \A body \in Bodies : Cardinality(TermsRows(conn, body)) <= 1
    /\ BothAccepted /\ faults = 0 =>
          /\ ~f.threw
          /\ ~t2.threw
          /\ Cardinality(TermsRows(conn, f.body)) = 1
          /\ Cardinality(TermsRows(disk, f.body)) = 1

\* Both calls found the body not accepted in their check (the first in
\* the table it saw, the second having no answer TRUE), both ran their
\* INSERT, no statement failed, and one row holds the body.
C31_Witness ==
    /\ BothAccepted
    /\ faults = 0
    /\ ~AreTermsAccepted(f.pre, f.body)
    /\ ~t2.have
    /\ ~f.threw
    /\ ~t2.threw
    /\ Cardinality(TermsRows(conn, f.body)) = 1

=============================================================================
